---- MODULE Spec2Model ----
(***************************************************************************)
(* Model of the Alephium WalletConnect provider.                           *)
(*                                                                         *)
(* Part 1: the identifier codec of src/src/provider.ts (formatChain,       *)
(*         parseChain, isCompatibleChainGroup).                            *)
(* Part 2: the permission reducer of src/src/index.ts                      *)
(*         (getPermittedChainGroups, getPermittedChainId).                 *)
(*                                                                         *)
(* JavaScript strings are sequences of one-character strings.  JavaScript  *)
(* values of type `number | undefined` are tagged records, so that         *)
(* `undefined`, NaN and the integers stay distinct values.                 *)
(***************************************************************************)
EXTENDS Integers, Sequences, FiniteSets, TLC

VARIABLES
  pc,        \* "call": the call is pending, "done": it has completed
  op,        \* the function or handler called last
  args,      \* its arguments
  ret,       \* its completion
  provider,  \* the fields of the WalletConnectProvider instance
  emitted,   \* the events the last handler emitted on provider.events
  forwarded, \* the requests the last handler passed to the transport
  step,      \* the number of handlers that have run on the instance
  wallet     \* the fields of the WalletClient instance

vars == <<pc, op, args, ret, provider, emitted, forwarded, step, wallet>>

\* the variables of a provider or wallet instance
objVars == <<provider, emitted, forwarded, step, wallet>>

(***************************************************************************)
(* Bounds of the model.                                                    *)
(***************************************************************************)
\* network ids given to the codec are 0..MaxNetworkId (two-digit ids included)
MaxNetworkId == 11

\* concrete chain groups given to the codec are -NegDepth..MaxChainGroup
MaxChainGroup == 10

\* how far below zero the groups handed to the codec reach
NegDepth == 3

\* the list given to getPermittedChainGroups has at most MaxInfos entries
MaxInfos == 4

\* its network ids are 0..MaxInfoNetworkId
MaxInfoNetworkId == 1

\* its chain groups are -1..MaxInfoChainGroup
MaxInfoChainGroup == 2

\* an account list on the wire has at most MaxAccounts entries
MaxAccounts == 2

\* the constructor of the provider is given at most MaxPermittedChains chains
MaxPermittedChains == 2

\* a provider instance handles at most MaxSteps events and requests
MaxSteps == 2

\* a provider of one permitted chain handles at most MaxSingleSteps of them
MaxSingleSteps == 3

\* a wallet handles at most MaxWalletSteps proposals, requests and changes
MaxWalletSteps == 3

\* largest network id a wire account embeds
MaxWireNetworkId == 2

\* largest chain group a wire account embeds
MaxWireGroup == 3

(***************************************************************************)
(* JavaScript values.                                                      *)
(***************************************************************************)
Undefined == [t |-> "undefined", v |-> 0]

NaN == [t |-> "NaN", v |-> 0]

IsUndefined(x) == x.t = "undefined"

Num(i) == [t |-> "number", v |-> i]

\* a defined value of an optional parameter or result
Some(x) == [t |-> "defined", v |-> x]

IsNum(x) == x.t = "number"

\* a === b on values of type number | undefined (NaN equals nothing)
StrictEquals(a, b) == a.t = b.t /\ a.t # "NaN" /\ a.v = b.v

\* a < b on numbers: every comparison with NaN is false
LessThan(a, b) == IsNum(a) /\ IsNum(b) /\ a.v < b.v

\* the completion of a call: a returned value or a thrown Error
Return(x) == [threw |-> FALSE, value |-> x]

Throw == [threw |-> TRUE, value |-> <<>>]

(***************************************************************************)
(* JavaScript strings.                                                     *)
(***************************************************************************)
Digits == <<"0", "1", "2", "3", "4", "5", "6", "7", "8", "9">>

IsDigit(c) == \E d \in 1..10 : Digits[d] = c

DigitValue(c) == (CHOOSE d \in 1..10 : Digits[d] = c) - 1

RECURSIVE NatToString(_)
NatToString(n) ==
  IF n < 10 THEN <<Digits[n + 1]>>
  ELSE NatToString(n \div 10) \o <<Digits[(n % 10) + 1]>>

\* Number::toString of an integer, radix 10
NumberToString(i) == IF i < 0 THEN <<"-">> \o NatToString(-i) ELSE NatToString(i)

\* ToString of a value interpolated in a template literal
JSToString(x) ==
  CASE x.t = "number" -> NumberToString(x.v)
    [] x.t = "NaN" -> <<"N", "a", "N">>
    [] OTHER -> <<"u", "n", "d", "e", "f", "i", "n", "e", "d">>

\* String.prototype.replace(/\//g, ':')
ReplaceSlashes(s) == [i \in 1..Len(s) |-> IF s[i] = "/" THEN ":" ELSE s[i]]

\* String.prototype.split(sep) for a one-character separator
RECURSIVE Split(_, _)
Split(s, sep) ==
  IF \A i \in 1..Len(s) : s[i] # sep THEN <<s>>
  ELSE LET i == CHOOSE k \in 1..Len(s) : s[k] = sep /\ \A j \in 1..(k - 1) : s[j] # sep
       IN  <<SubSeq(s, 1, i - 1)>> \o Split(SubSeq(s, i + 1, Len(s)), sep)

\* the value of a non-empty string of decimal digits
RECURSIVE DigitsValue(_)
DigitsValue(s) ==
  IF Len(s) = 0 THEN 0
  ELSE 10 * DigitsValue(SubSeq(s, 1, Len(s) - 1)) + DigitValue(s[Len(s)])

\* the length of the longest prefix of s made of decimal digits
DigitPrefixLen(s) ==
  CHOOSE k \in 0..Len(s) :
    /\ \A i \in 1..k : IsDigit(s[i])
    /\ (k < Len(s) => ~IsDigit(s[k + 1]))

\* StrWhiteSpaceChar prefix removed by parseInt
RECURSIVE TrimStart(_)
TrimStart(s) == IF Len(s) > 0 /\ s[1] = " " THEN TrimStart(Tail(s)) ELSE s

\* parseInt(s, 10): optional white space, optional sign, longest digit prefix
ParseInt(s) ==
  LET t == TrimStart(s)
      signed == Len(t) > 0 /\ t[1] \in {"-", "+"}
      neg == Len(t) > 0 /\ t[1] = "-"
      rest == IF signed THEN Tail(t) ELSE t
      k == DigitPrefixLen(rest)
      n == DigitsValue(SubSeq(rest, 1, k))
  IN  IF k = 0 THEN NaN ELSE Num(IF neg THEN -n ELSE n)

\* parseInt of the i-th element of a destructured array: a missing element is
\* undefined, which parseInt converts to the string "undefined", hence NaN
ParseIntAt(segs, i) == IF i > Len(segs) THEN NaN ELSE ParseInt(segs[i])

(***************************************************************************)
(* Identifier codec, src/src/provider.ts.                                  *)
(***************************************************************************)
PROVIDER_NAMESPACE == <<"a", "l", "e", "p", "h", "i", "u", "m">>

\* mutant: the any-group case of the expected side is dropped
isCompatibleChainGroup_exactOnly(group, expectedChainGroup) ==
  StrictEquals(expectedChainGroup, group)

isCompatibleChainGroup(group, expectedChainGroup) ==
  StrictEquals(expectedChainGroup, Undefined) \/ StrictEquals(expectedChainGroup, group)

\* mutant: no check of the sign of a concrete group
formatChain_unchecked(networkId, chainGroup) ==
  LET chainGroupEncoded ==
        IF ~StrictEquals(chainGroup, Undefined) THEN chainGroup ELSE Num(-1)
  IN  Return(PROVIDER_NAMESPACE \o <<":">> \o JSToString(networkId)
               \o <<"/">> \o JSToString(chainGroupEncoded))

\* mutant: network id and group interpolated in the wrong order
formatChain_swapped(networkId, chainGroup) ==
  IF ~StrictEquals(chainGroup, Undefined) /\ LessThan(chainGroup, Num(0))
  THEN Throw
  ELSE LET chainGroupEncoded ==
             IF ~StrictEquals(chainGroup, Undefined) THEN chainGroup ELSE Num(-1)
       IN  Return(PROVIDER_NAMESPACE \o <<":">> \o JSToString(chainGroupEncoded)
                    \o <<"/">> \o JSToString(networkId))

formatChain(networkId, chainGroup) ==
  IF ~StrictEquals(chainGroup, Undefined) /\ LessThan(chainGroup, Num(0))
  THEN Throw
  ELSE LET chainGroupEncoded ==
             IF ~StrictEquals(chainGroup, Undefined) THEN chainGroup ELSE Num(-1)
       IN  Return(PROVIDER_NAMESPACE \o <<":">> \o JSToString(networkId)
                    \o <<"/">> \o JSToString(chainGroupEncoded))

\* mutant: -1 is returned as a number instead of undefined
parseChain_keepsMinusOne(chainString) ==
  LET segs == Split(ReplaceSlashes(chainString), ":")
      chainGroupDecoded == ParseIntAt(segs, 3)
  IN  IF LessThan(chainGroupDecoded, Num(-1))
      THEN Throw
      ELSE Return(<<ParseIntAt(segs, 2), chainGroupDecoded>>)

\* mutant: no check of the lower limit of the decoded group
parseChain_unchecked(chainString) ==
  LET segs == Split(ReplaceSlashes(chainString), ":")
      chainGroupDecoded == ParseIntAt(segs, 3)
  IN  Return(<<ParseIntAt(segs, 2),
               IF StrictEquals(chainGroupDecoded, Num(-1))
               THEN Undefined ELSE chainGroupDecoded>>)

parseChain(chainString) ==
  LET segs == Split(ReplaceSlashes(chainString), ":")
      chainGroupDecoded == ParseIntAt(segs, 3)
  IN  IF LessThan(chainGroupDecoded, Num(-1))
      THEN Throw
      ELSE Return(<<ParseIntAt(segs, 2),
                    IF StrictEquals(chainGroupDecoded, Num(-1))
                    THEN Undefined ELSE chainGroupDecoded>>)

(***************************************************************************)
(* Inputs of the codec.                                                    *)
(***************************************************************************)
NetworkIds == {Num(n) : n \in 0..MaxNetworkId}

\* chainGroup?: number, negative values included
ChainGroupArgs == {Undefined} \cup {Num(g) : g \in (-NegDepth)..MaxChainGroup}

\* the groups an account can have, and the any-group value
ChainGroups == {Undefined} \cup {Num(g) : g \in 0..MaxChainGroup}

\* segments of a wire string: decimal numbers and malformed pieces
Segments ==
  {NumberToString(i) : i \in (-NegDepth)..MaxNetworkId}
    \cup {NumberToString(i) : i \in 0..MaxChainGroup}
    \cup {<<>>, <<"x">>, <<"2", "x">>, <<"-">>, <<" ", "2">>, <<"+", "1">>, <<"0", "2">>}

Namespaces == {PROVIDER_NAMESPACE, <<"b", "i", "p">>, <<>>}

Separators == {":", "/"}

\* strings a peer can put on the wire as a chain identifier
WireStrings ==
  Namespaces
    \cup {ns \o <<s1>> \o a : ns \in Namespaces, s1 \in Separators, a \in Segments}
    \cup {ns \o <<s1>> \o a \o <<s2>> \o b :
            ns \in Namespaces, s1 \in Separators, a \in Segments,
            s2 \in Separators, b \in Segments}

(***************************************************************************)
(* Calls of the codec: the initial state holds a pending call, the action  *)
(* of the called function completes it.                                    *)
(***************************************************************************)
Pending == Return(<<>>)

\* no provider instance exists while the exported functions are called
NoProvider ==
  /\ provider = <<>>
  /\ wallet = <<>>
  /\ emitted = <<>>
  /\ forwarded = <<>>
  /\ step = 0

InitCodec ==
  /\ NoProvider
  /\ pc = "call"
  /\ ret = Pending
  /\ \/ /\ op \in {"formatChain", "parseFormatChain"}
        /\ args \in NetworkIds \X ChainGroupArgs
     \/ /\ op = "parseChain"
        /\ args \in {<<chainString>> : chainString \in WireStrings}
     \/ /\ op = "isCompatibleChainGroup"
        /\ args \in ChainGroups \X ChainGroups

CallFormatChain ==
  /\ pc = "call" /\ op = "formatChain"
  /\ ret' = formatChain(args[1], args[2])
  /\ pc' = "done"
  /\ UNCHANGED <<op, args>>
  /\ UNCHANGED objVars

CallParseChain ==
  /\ pc = "call" /\ op = "parseChain"
  /\ ret' = parseChain(args[1])
  /\ pc' = "done"
  /\ UNCHANGED <<op, args>>
  /\ UNCHANGED objVars

\* parseChain(formatChain(networkId, chainGroup)); an Error of formatChain propagates
CallParseFormatChain ==
  /\ pc = "call" /\ op = "parseFormatChain"
  /\ LET formatted == formatChain(args[1], args[2])
     IN  ret' = IF formatted.threw THEN Throw ELSE parseChain(formatted.value)
  /\ pc' = "done"
  /\ UNCHANGED <<op, args>>
  /\ UNCHANGED objVars

CallIsCompatibleChainGroup ==
  /\ pc = "call" /\ op = "isCompatibleChainGroup"
  /\ ret' = Return(isCompatibleChainGroup(args[1], args[2]))
  /\ pc' = "done"
  /\ UNCHANGED <<op, args>>
  /\ UNCHANGED objVars

NextCodec ==
  \/ CallFormatChain
  \/ CallParseChain
  \/ CallParseFormatChain
  \/ CallIsCompatibleChainGroup

SpecCodec == InitCodec /\ [][NextCodec]_vars

(***************************************************************************)
(* Permission reducer, src/src/index.ts.  Network ids and chain groups are *)
(* numbers, -1 is the any-group value.  A table is a function from its     *)
(* keys to arrays.                                                         *)
(***************************************************************************)
ALEPHIUM_NAMESPACE == <<"a", "l", "e", "p", "h", "i", "u", "m">>

\* Array.prototype.includes
includes(array, x) == \E i \in 1..Len(array) : array[i] = x

index_formatChain(networkId, chainGroup) ==
  ALEPHIUM_NAMESPACE \o <<":">> \o NumberToString(networkId)
    \o <<"/">> \o NumberToString(chainGroup)

\* Object.create({})
EmptyTable == [networkId \in {} |-> <<>>]

\* mutant: the any-group value is pushed like a concrete group
reduceChainInfo_pushesAny(acc, info) ==
  LET networkId == info.networkId
      chainGroup == info.chainGroup
      acc1 == IF networkId \in DOMAIN acc THEN acc ELSE (networkId :> <<>>) @@ acc
  IN  IF includes(acc1[networkId], -1) THEN acc1
      ELSE IF ~includes(acc1[networkId], chainGroup)
           THEN [acc1 EXCEPT ![networkId] = Append(@, chainGroup)]
           ELSE acc1

\* mutant: a concrete group is pushed without the test for its presence
reduceChainInfo_noDedupe(acc, info) ==
  LET networkId == info.networkId
      chainGroup == info.chainGroup
      acc1 == IF networkId \in DOMAIN acc THEN acc ELSE (networkId :> <<>>) @@ acc
  IN  IF includes(acc1[networkId], -1) THEN acc1
      ELSE IF chainGroup = -1 THEN [acc1 EXCEPT ![networkId] = <<-1>>]
      ELSE [acc1 EXCEPT ![networkId] = Append(@, chainGroup)]

\* mutant: the any-group value empties the list of the network
reduceChainInfo_anyClears(acc, info) ==
  LET networkId == info.networkId
      chainGroup == info.chainGroup
      acc1 == IF networkId \in DOMAIN acc THEN acc ELSE (networkId :> <<>>) @@ acc
  IN  IF includes(acc1[networkId], -1) THEN acc1
      ELSE IF chainGroup = -1 THEN [acc1 EXCEPT ![networkId] = <<>>]
      ELSE IF ~includes(acc1[networkId], chainGroup)
           THEN [acc1 EXCEPT ![networkId] = Append(@, chainGroup)]
           ELSE acc1

\* mutant: a network keeps only the first group it was given
reduceChainInfo_firstGroupOnly(acc, info) ==
  LET networkId == info.networkId
      chainGroup == info.chainGroup
      acc1 == IF networkId \in DOMAIN acc THEN acc ELSE (networkId :> <<>>) @@ acc
  IN  IF Len(acc1[networkId]) # 0 THEN acc1
      ELSE [acc1 EXCEPT ![networkId] = <<chainGroup>>]

\* the callback of infos.reduce
reduceChainInfo(acc, info) ==
  LET networkId == info.networkId
      chainGroup == info.chainGroup
      acc1 == IF networkId \in DOMAIN acc THEN acc ELSE (networkId :> <<>>) @@ acc
  IN  IF includes(acc1[networkId], -1) THEN acc1
      ELSE IF chainGroup = -1 THEN [acc1 EXCEPT ![networkId] = <<-1>>]
      ELSE IF ~includes(acc1[networkId], chainGroup)
           THEN [acc1 EXCEPT ![networkId] = Append(@, chainGroup)]
           ELSE acc1

\* Array.prototype.reduce, left to right from the initial accumulator
RECURSIVE reduce(_, _)
reduce(infos, acc) ==
  IF Len(infos) = 0 THEN acc
  ELSE reduce(Tail(infos), reduceChainInfo(acc, Head(infos)))

getPermittedChainGroups(infos) == reduce(infos, EmptyTable)

\* mutant: the any-group branch formats the concrete group of the caller
getPermittedChainId_concreteFirst(networkId, chainGroup, permittedChainGroups) ==
  IF IsUndefined(permittedChainGroups) THEN Undefined
  ELSE IF networkId \notin DOMAIN permittedChainGroups.v THEN Undefined
  ELSE LET chainGroups == permittedChainGroups.v[networkId]
       IN  IF includes(chainGroups, -1)
           THEN Some(index_formatChain(networkId, chainGroup))
           ELSE IF includes(chainGroups, chainGroup)
                THEN Some(index_formatChain(networkId, chainGroup))
                ELSE Undefined

\* mutant: a present network permits every concrete group
getPermittedChainId_anyMember(networkId, chainGroup, permittedChainGroups) ==
  IF IsUndefined(permittedChainGroups) THEN Undefined
  ELSE IF networkId \notin DOMAIN permittedChainGroups.v THEN Undefined
  ELSE LET chainGroups == permittedChainGroups.v[networkId]
       IN  IF includes(chainGroups, -1)
           THEN Some(index_formatChain(networkId, -1))
           ELSE Some(index_formatChain(networkId, chainGroup))

\* mutant: the any-group value permits no concrete group
getPermittedChainId_ignoresAnyGroup(networkId, chainGroup, permittedChainGroups) ==
  IF IsUndefined(permittedChainGroups) THEN Undefined
  ELSE IF networkId \notin DOMAIN permittedChainGroups.v THEN Undefined
  ELSE LET chainGroups == permittedChainGroups.v[networkId]
       IN  IF includes(chainGroups, chainGroup)
           THEN Some(index_formatChain(networkId, chainGroup))
           ELSE Undefined

getPermittedChainId(networkId, chainGroup, permittedChainGroups) ==
  IF IsUndefined(permittedChainGroups) THEN Undefined
  ELSE IF networkId \notin DOMAIN permittedChainGroups.v THEN Undefined
  ELSE LET chainGroups == permittedChainGroups.v[networkId]
       IN  IF includes(chainGroups, -1)
           THEN Some(index_formatChain(networkId, -1))
           ELSE IF includes(chainGroups, chainGroup)
                THEN Some(index_formatChain(networkId, chainGroup))
                ELSE Undefined

(***************************************************************************)
(* Calls of the reducer: the initial state holds a pending call of         *)
(* getPermittedChainGroups; getPermittedChainId is then asked about the    *)
(* table it returned, or about no table.                                   *)
(***************************************************************************)
InfoNetworkIds == 0..MaxInfoNetworkId

InfoChainGroups == (-1)..MaxInfoChainGroup

ChainInfos == [networkId : InfoNetworkIds, chainGroup : InfoChainGroups]

InfoLists == UNION {[1..n -> ChainInfos] : n \in 0..MaxInfos}

InitReducer ==
  /\ NoProvider
  /\ pc = "call"
  /\ op = "getPermittedChainGroups"
  /\ args \in {<<infos>> : infos \in InfoLists}
  /\ ret = Pending

CallGetPermittedChainGroups ==
  /\ pc = "call" /\ op = "getPermittedChainGroups"
  /\ ret' = Return(getPermittedChainGroups(args[1]))
  /\ pc' = "done"
  /\ UNCHANGED <<op, args>>
  /\ UNCHANGED objVars

CallGetPermittedChainId ==
  /\ pc = "done" /\ op = "getPermittedChainGroups"
  /\ \E networkId \in InfoNetworkIds, chainGroup \in InfoChainGroups,
        permittedChainGroups \in {Undefined, Some(ret.value)} :
       /\ op' = "getPermittedChainId"
       /\ args' = <<networkId, chainGroup, permittedChainGroups>>
       /\ ret' = Return(getPermittedChainId(networkId, chainGroup, permittedChainGroups))
  /\ pc' = "done"
  /\ UNCHANGED objVars

NextReducer ==
  \/ CallGetPermittedChainGroups
  \/ CallGetPermittedChainId

SpecReducer == InitReducer /\ [][NextReducer]_vars

(***************************************************************************)
(* Account codec, src/src/provider.ts and src/src/index.ts.  The key       *)
(* derivation of @alephium/web3 is a stub: the address is the key behind   *)
(* a version character, the group is the value of its last character.      *)
(***************************************************************************)
\* the number of groups of the chain
TotalGroups == 4

\* public keys, one per group
PublicKeys == {<<"k", Digits[g + 1]>> : g \in 0..(TotalGroups - 1)}

addressFromPublicKey(publicKey) == <<"1">> \o publicKey

groupOfAddress(address) == DigitValue(address[Len(address)]) % TotalGroups

\* the Account of a public key
AccountOf(publicKey) ==
  [address |-> addressFromPublicKey(publicKey),
   group |-> groupOfAddress(addressFromPublicKey(publicKey)),
   publicKey |-> publicKey]

formatAccount(permittedChain, account) ==
  permittedChain \o <<":">> \o account.publicKey

\* mutant: the group is read from the wire string
parseAccount_trustsWire(account) ==
  LET segs == Split(ReplaceSlashes(account), ":")
      publicKey == segs[4]
      address == addressFromPublicKey(publicKey)
      group == ParseInt(segs[3]).v
  IN  [address |-> address, group |-> group, publicKey |-> publicKey]

\* mutant: the wrong segment is taken for the public key
parseAccount_wrongSegment(account) ==
  LET segs == Split(ReplaceSlashes(account), ":")
      publicKey == segs[3]
      address == addressFromPublicKey(publicKey)
      group == 0
  IN  [address |-> address, group |-> group, publicKey |-> publicKey]

parseAccount(account) ==
  LET segs == Split(ReplaceSlashes(account), ":")
      publicKey == segs[4]
      address == addressFromPublicKey(publicKey)
      group == groupOfAddress(address)
  IN  [address |-> address, group |-> group, publicKey |-> publicKey]

index_formatAccount(permittedChain, account) ==
  permittedChain \o <<":">> \o account.publicKey

index_parseAccount(account) ==
  LET segs == Split(ReplaceSlashes(account), ":")
      publicKey == segs[4]
      address == addressFromPublicKey(publicKey)
      group == groupOfAddress(address)
  IN  [address |-> address, group |-> group, publicKey |-> publicKey]

index_parseChain(chainString) ==
  LET segs == Split(ReplaceSlashes(chainString), ":")
      chainGroupDecoded == ParseIntAt(segs, 3)
  IN  <<ParseIntAt(segs, 2), chainGroupDecoded>>

(***************************************************************************)
(* Array and string helpers of the providers.                              *)
(***************************************************************************)
\* Array.prototype.map
Map(array, F(_)) == [i \in 1..Len(array) |-> F(array[i])]

\* the elements of the array at the kept indices, from index i on, in order
RECURSIVE PickFrom(_, _, _)
PickFrom(array, kept, i) ==
  IF i > Len(array) THEN <<>>
  ELSE (IF i \in kept THEN <<array[i]>> ELSE <<>>) \o PickFrom(array, kept, i + 1)

\* Array.prototype.filter
Filter(array, Keep(_)) ==
  PickFrom(array, {i \in 1..Len(array) : Keep(array[i])}, 1)

\* Array.prototype.join() of an array of strings: the separator is ","
RECURSIVE Join(_)
Join(array) ==
  IF Len(array) = 0 THEN <<>>
  ELSE IF Len(array) = 1 THEN array[1]
  ELSE array[1] \o <<",">> \o Join(Tail(array))

\* getAccountsFromNamespaces / getChainsFromNamespaces of @walletconnect/utils:
\* the accounts of the namespace, and of each account the text before its
\* second ":"
ChainOfAccount(account) ==
  LET segs == Split(account, ":")
  IN  segs[1] \o <<":">> \o segs[2]

getChainsFromNamespaces(accounts) == Map(accounts, ChainOfAccount)

(***************************************************************************)
(* The provider of permitted chain groups, src/src/index.ts:485-727.       *)
(***************************************************************************)
signerMethods ==
  <<"alph_getAccounts", "alph_signTransferTx", "alph_signContractCreationTx",
    "alph_signScriptTx", "alph_signUnsignedTx", "alph_signHexString",
    "alph_signMessage">>

\* a thrown Error, or a rejected promise, with its message
Error(message) == [threw |-> TRUE, value |-> message]

index_sameChains(chains0, chains1) == Join(chains0) = Join(chains1)

index_sameAccounts(account0, account1) ==
  IF IsUndefined(account1) THEN FALSE
  ELSE LET Address(a) == a.address
       IN  Join(Map(account0, Address)) = Join(Map(account1.v, Address))

\* mutant: a new chain list is stored without recomputing the table
index_setChain_keepsTable(this, chains) ==
  IF ~index_sameChains(chains, this.chains)
  THEN [this EXCEPT !.chains = chains]
  ELSE this

index_setChain(this, chains) ==
  IF ~index_sameChains(chains, this.chains)
  THEN LET ChainInfo(chain) ==
             [networkId |-> index_parseChain(chain)[1].v,
              chainGroup |-> index_parseChain(chain)[2].v]
       IN  [this EXCEPT !.permittedChainGroups =
                          getPermittedChainGroups(Map(chains, ChainInfo)),
                        !.chains = chains]
  ELSE this

\* array.findIndex(v => v.address === value.address) === index
FirstOfAddress(array) ==
  PickFrom(array,
           {i \in 1..Len(array) :
              \A j \in 1..(i - 1) : array[j].address # array[i].address},
           1)

\* the result of a handler: the fields, the events emitted, the completion
Outcome(this, events, completion) ==
  [this |-> this, emitted |-> events, ret |-> completion]

\* mutant: the accounts are not filtered by the permitted groups
index_setAccounts_noFilter(this, accounts) ==
  LET parsedAccounts == Map(accounts, index_parseAccount)
  IN  IF index_sameAccounts(parsedAccounts, this.lastSetAccounts)
      THEN Outcome(this, <<>>, Return(<<>>))
      ELSE LET this1 == [this EXCEPT !.lastSetAccounts = Some(parsedAccounts)]
               newAccounts == FirstOfAddress(parsedAccounts)
           IN  IF Len(newAccounts) # 0
                    /\ ~index_sameAccounts(newAccounts, Some(this1.accounts))
               THEN Outcome([this1 EXCEPT !.accounts = newAccounts],
                            <<[name |-> "accountsChanged", data |-> newAccounts]>>,
                            Return(<<>>))
               ELSE Outcome(this1, <<>>, Return(<<>>))

index_setAccounts(this, accounts) ==
  LET parsedAccounts == Map(accounts, index_parseAccount)
  IN  IF index_sameAccounts(parsedAccounts, this.lastSetAccounts)
      THEN Outcome(this, <<>>, Return(<<>>))
      ELSE LET this1 == [this EXCEPT !.lastSetAccounts = Some(parsedAccounts)]
           IN  IF this1.networkId \notin DOMAIN this1.permittedChainGroups
               THEN \* permittedGroups is undefined: permittedGroups.includes throws
                    Outcome(this1, <<>>, Error("TypeError"))
               ELSE LET permittedGroups == this1.permittedChainGroups[this1.networkId]
                        Permitted(account) ==
                          includes(permittedGroups, -1)
                            \/ includes(permittedGroups, account.group)
                        newAccounts == FirstOfAddress(Filter(parsedAccounts, Permitted))
                    IN  IF Len(newAccounts) # 0
                             /\ ~index_sameAccounts(newAccounts, Some(this1.accounts))
                        THEN Outcome([this1 EXCEPT !.accounts = newAccounts],
                                     <<[name |-> "accountsChanged", data |-> newAccounts]>>,
                                     Return(<<>>))
                        ELSE Outcome(this1, <<>>, Return(<<>>))

index_updateNamespace(this, accounts) ==
  index_setAccounts(index_setChain(this, getChainsFromNamespaces(accounts)), accounts)

\* new WalletConnectProvider(opts), with opts.permittedChains not empty
index_constructor(permittedChains) ==
  [networkId |-> permittedChains[1].networkId,
   permittedChainGroups |-> getPermittedChainGroups(permittedChains),
   methods |-> signerMethods,
   chains |-> <<>>,
   accounts |-> <<>>,
   lastSetAccounts |-> Undefined]

(***************************************************************************)
(* Inputs of the provider.                                                 *)
(***************************************************************************)
\* network ids named by the dapp and by network changes
ProviderNetworkIds == {0, 1}

\* chain groups named by the dapp
ProviderChainGroups == {-1, 0}

ProviderChainInfos == [networkId : ProviderNetworkIds, chainGroup : ProviderChainGroups]

PermittedChainsOpts ==
  UNION {[1..n -> ProviderChainInfos] : n \in 1..MaxPermittedChains}

\* the keys the wallet reports
WalletKeys == {pk \in PublicKeys : groupOfAddress(addressFromPublicKey(pk)) \in {0, 1}}

\* the chains the wallet reports accounts of
WalletChains == {index_formatChain(0, -1), index_formatChain(1, 0)}

\* an account as the wallet puts it on the wire
WireAccounts ==
  {index_formatAccount(chain, AccountOf(pk)) : chain \in WalletChains, pk \in WalletKeys}

WireAccountLists == UNION {[1..n -> WireAccounts] : n \in 0..MaxAccounts}

RequestMethods == {"alph_getAccounts", "alph_signTransferTx", "alph_unknown"}

\* params.signerAddress of a request
SignerAddresses ==
  {Undefined} \cup {Some(addressFromPublicKey(pk)) : pk \in WalletKeys}

(***************************************************************************)
(* Handlers of the provider.                                               *)
(***************************************************************************)
InitMulti ==
  /\ pc = "done"
  /\ op = "constructor"
  /\ args \in {<<permittedChains>> : permittedChains \in PermittedChainsOpts}
  /\ ret = Return(<<>>)
  /\ provider = index_constructor(args[1])
  /\ wallet = <<>>
  /\ emitted = <<>>
  /\ forwarded = <<>>
  /\ step = 0

\* this is an instance of the class of src/src/index.ts
IsMulti(this) == "permittedChainGroups" \in DOMAIN this

\* this is an instance of the class of src/src/provider.ts
IsSingle(this) == "permittedChain" \in DOMAIN this

\* what every handler does to the variables
Handled(name, arguments, outcome, requests) ==
  /\ step' = step + 1
  /\ pc' = "done"
  /\ op' = name
  /\ args' = arguments
  /\ provider' = outcome.this
  /\ UNCHANGED wallet
  /\ emitted' = outcome.emitted
  /\ ret' = outcome.ret
  /\ forwarded' = requests

\* signer.on("connect"): the chains and accounts of the connection
OnConnect ==
  /\ step < MaxSteps
  /\ IsMulti(provider)
  /\ \E accounts \in WireAccountLists :
    LET chains == getChainsFromNamespaces(accounts)
        this1 == IF Len(chains) # 0 THEN index_setChain(provider, chains) ELSE provider
        set == IF Len(accounts) # 0 THEN index_setAccounts(this1, accounts)
               ELSE Outcome(this1, <<>>, Return(<<>>))
    IN  Handled("connect", <<accounts>>,
                IF set.ret.threw THEN set
                ELSE Outcome(set.this,
                             set.emitted \o <<[name |-> "connect", data |-> <<>>]>>,
                             set.ret),
                <<>>)

\* SIGNER_EVENTS.created and SIGNER_EVENTS.updated
OnSession ==
  /\ step < MaxSteps
  /\ IsMulti(provider)
  /\ \E accounts \in WireAccountLists :
    Handled("updateNamespace", <<accounts>>,
            index_updateNamespace(provider, accounts), <<>>)

\* SIGNER_EVENTS.event with the name accountsChanged
OnAccountsChanged ==
  /\ step < MaxSteps
  /\ IsMulti(provider)
  /\ \E accounts \in WireAccountLists :
    Handled("accountsChanged", <<accounts>>,
            index_setAccounts(provider, accounts), <<>>)

\* mutant: the change of network drops the accounts of the old network
index_networkChanged_clearsAccounts(this, data) ==
  Outcome([this EXCEPT !.networkId = data, !.accounts = <<>>,
                       !.lastSetAccounts = Undefined],
          <<[name |-> "networkChanged", data |-> data]>>,
          Return(<<>>))

\* the branch of the SIGNER_EVENTS.event listener for networkChanged
index_networkChanged(this, data) ==
  LET this1 == [this EXCEPT !.networkId = data]
  IN  Outcome(this1,
              <<[name |-> "networkChanged", data |-> this1.networkId]>>,
              Return(<<>>))

\* SIGNER_EVENTS.event with the name networkChanged
OnNetworkChanged ==
  /\ step < MaxSteps
  /\ IsMulti(provider)
  /\ \E networkId \in ProviderNetworkIds :
    Handled("networkChanged", <<networkId>>,
            index_networkChanged(provider, networkId), <<>>)

\* SIGNER_EVENTS.event with another name
OnOtherEvent ==
  /\ step < MaxSteps
  /\ IsMulti(provider)
  /\ Handled("otherEvent", <<"chainChanged">>,
          Outcome(provider, <<[name |-> "chainChanged", data |-> <<>>]>>, Return(<<>>)),
          <<>>)

\* the requests request(args) passes to signer.request, and its completion
index_request(this, method, signerAddress) ==
  IF method = "alph_getAccounts"
  THEN [ret |-> Return(this.accounts), forwarded |-> <<>>]
  ELSE IF includes(this.methods, method)
  THEN IF IsUndefined(signerAddress)
       THEN [ret |-> Error("Cannot request without signerAddress"), forwarded |-> <<>>]
       ELSE LET found == {i \in 1..Len(this.accounts) :
                            this.accounts[i].address = signerAddress.v}
            IN  IF found = {}
                THEN [ret |-> Error("Unknown signer address"), forwarded |-> <<>>]
                ELSE LET signerAccount ==
                           this.accounts[CHOOSE i \in found : \A j \in found : i <= j]
                     IN  [ret |-> Return(<<>>),
                          forwarded |->
                            <<[method |-> method,
                               signerAddress |-> signerAddress,
                               chainId |-> index_formatChain(this.networkId,
                                                             signerAccount.group)]>>]
  ELSE [ret |-> Error("Invalid method was passed"), forwarded |-> <<>>]

Request ==
  /\ step < MaxSteps
  /\ IsMulti(provider)
  /\ \E method \in RequestMethods, signerAddress \in SignerAddresses :
    LET result == index_request(provider, method, signerAddress)
    IN  Handled("request", <<method, signerAddress>>,
                Outcome(provider, <<>>, result.ret), result.forwarded)

NextMulti ==
  \/ OnConnect
  \/ OnSession
  \/ OnAccountsChanged
  \/ OnNetworkChanged
  \/ OnOtherEvent
  \/ Request

SpecMulti == InitMulti /\ [][NextMulti]_vars

(***************************************************************************)
(* The provider of one permitted chain, src/src/provider.ts:42-315.        *)
(***************************************************************************)
PROVIDER_METHODS ==
  <<"alph_getSelectedAccount", "alph_signAndSubmitTransferTx",
    "alph_signAndSubmitDeployContractTx", "alph_signAndSubmitExecuteScriptTx",
    "alph_signAndSubmitUnsignedTx", "alph_signUnsignedTx", "alph_signMessage",
    "alph_requestNodeApi", "alph_requestExplorerApi">>

RELAY_METHODS == Tail(PROVIDER_METHODS)

\* String.prototype.startsWith
startsWith(s, prefix) == Len(s) >= Len(prefix) /\ SubSeq(s, 1, Len(prefix)) = prefix

\* the sign client of a provider: whether it holds a live session, and the
\* proposal of connect(): "none", "awaiting" the approval of the wallet, or
\* "awaiting, session ended" when a disconnect overtook the approval
NoSession == [live |-> FALSE, proposal |-> "none"]

\* new WalletConnectProvider(opts), with a chain group formatChain accepts
constructor(opts) ==
  [networkId |-> opts.networkId,
   chainGroup |-> opts.chainGroup,
   permittedChain |-> formatChain(Num(opts.networkId), opts.chainGroup).value,
   methods |-> IF IsUndefined(opts.methods) THEN RELAY_METHODS ELSE opts.methods.v,
   account |-> Undefined,
   session |-> Undefined,
   lastSetAccounts |-> Undefined,
   client |-> NoSession]

getSelectedAccount(this) ==
  IF IsUndefined(this.account)
  THEN Error("Account is not available")
  ELSE Return(this.account.v)

sameChains(chains0, chains1) == Join(chains0) = Join(chains1)

setChain(this, chains) ==
  IF ~sameChains(chains, <<this.permittedChain>>)
  THEN Error("Network or chain group has changed")
  ELSE Return(<<>>)

sameAccounts(account0, account1) ==
  IF IsUndefined(account1) THEN FALSE
  ELSE LET Address(a) == a.address
       IN  Join(Map(account0, Address)) = Join(Map(account1.v, Address))

\* mutant: the guard against a repeated list is gone
setAccounts_noGuard(this, accounts) ==
  LET parsedAccounts == Map(accounts, parseAccount)
      this1 == [this EXCEPT !.lastSetAccounts = Some(parsedAccounts)]
  IN  IF Len(parsedAccounts) # 1
      THEN Outcome(this1, <<>>,
                   Error("The WC provider does not supports multiple accounts"))
      ELSE LET newAccount == parsedAccounts[1]
           IN  IF ~isCompatibleChainGroup(Num(newAccount.group), this1.chainGroup)
               THEN Outcome(this1, <<>>,
                            Error("The new account belongs to an unexpected chain group"))
               ELSE Outcome([this1 EXCEPT !.account = Some(newAccount)],
                            <<[name |-> "accountChanged", data |-> newAccount]>>,
                            Return(<<>>))

\* mutant: the group of the new account is not compared with the chain group
setAccounts_anyGroup(this, accounts) ==
  LET parsedAccounts == Map(accounts, parseAccount)
  IN  IF sameAccounts(parsedAccounts, this.lastSetAccounts)
      THEN Outcome(this, <<>>, Return(<<>>))
      ELSE LET this1 == [this EXCEPT !.lastSetAccounts = Some(parsedAccounts)]
           IN  IF Len(parsedAccounts) # 1
               THEN Outcome(this1, <<>>,
                            Error("The WC provider does not supports multiple accounts"))
               ELSE Outcome([this1 EXCEPT !.account = Some(parsedAccounts[1])],
                            <<[name |-> "accountChanged", data |-> parsedAccounts[1]]>>,
                            Return(<<>>))

setAccounts(this, accounts) ==
  LET parsedAccounts == Map(accounts, parseAccount)
  IN  IF sameAccounts(parsedAccounts, this.lastSetAccounts)
      THEN Outcome(this, <<>>, Return(<<>>))
      ELSE LET this1 == [this EXCEPT !.lastSetAccounts = Some(parsedAccounts)]
           IN  IF Len(parsedAccounts) # 1
               THEN Outcome(this1, <<>>,
                            Error("The WC provider does not supports multiple accounts"))
               ELSE LET newAccount == parsedAccounts[1]
                    IN  IF ~isCompatibleChainGroup(Num(newAccount.group), this1.chainGroup)
                        THEN Outcome(this1, <<>>,
                                     Error("The new account belongs to an unexpected chain group"))
                        ELSE Outcome([this1 EXCEPT !.account = Some(newAccount)],
                                     <<[name |-> "accountChanged", data |-> newAccount]>>,
                                     Return(<<>>))

updateNamespace(this, accounts) ==
  LET checked == setChain(this, getChainsFromNamespaces(accounts))
  IN  IF checked.threw THEN Outcome(this, <<>>, checked)
      ELSE setAccounts(this, accounts)

\* mutant: the signer address is not compared with the selected account
request_anySigner(this, method, signerAddress) ==
  LET rejected(message) == [ret |-> Error(message), forwarded |-> <<>>]
  IN  IF ~includes(this.methods, method)
      THEN rejected("Invalid method was passed")
      ELSE IF ~startsWith(method, "alph_request") /\ IsUndefined(signerAddress)
      THEN rejected("Cannot request without signerAddress")
      ELSE [ret |-> Return(<<>>),
            forwarded |->
              <<[method |-> method,
                 signerAddress |-> signerAddress,
                 chainId |-> this.permittedChain,
                 topic |-> IF IsUndefined(this.session) THEN Undefined
                           ELSE Some(this.session.v.topic)]>>]

\* mutant: the configured method list is not consulted
request_anyMethod(this, method, signerAddress) ==
  LET rejected(message) == [ret |-> Error(message), forwarded |-> <<>>]
  IN  IF ~startsWith(method, "alph_request") /\ IsUndefined(signerAddress)
      THEN rejected("Cannot request without signerAddress")
      ELSE IF ~startsWith(method, "alph_request") /\ getSelectedAccount(this).threw
      THEN rejected(getSelectedAccount(this).value)
      ELSE IF ~startsWith(method, "alph_request")
                /\ signerAddress.v # getSelectedAccount(this).value.address
      THEN rejected("Invalid signer address")
      ELSE [ret |-> Return(<<>>),
            forwarded |->
              <<[method |-> method,
                 signerAddress |-> signerAddress,
                 chainId |-> this.permittedChain,
                 topic |-> IF IsUndefined(this.session) THEN Undefined
                           ELSE Some(this.session.v.topic)]>>]

\* mutant: the signer address is checked for every method
request_checksEverySigner(this, method, signerAddress) ==
  LET rejected(message) == [ret |-> Error(message), forwarded |-> <<>>]
  IN  IF ~includes(this.methods, method)
      THEN rejected("Invalid method was passed")
      ELSE IF IsUndefined(signerAddress)
      THEN rejected("Cannot request without signerAddress")
      ELSE IF getSelectedAccount(this).threw
      THEN rejected(getSelectedAccount(this).value)
      ELSE IF signerAddress.v # getSelectedAccount(this).value.address
      THEN rejected("Invalid signer address")
      ELSE [ret |-> Return(<<>>),
            forwarded |->
              <<[method |-> method,
                 signerAddress |-> signerAddress,
                 chainId |-> this.permittedChain,
                 topic |-> IF IsUndefined(this.session) THEN Undefined
                           ELSE Some(this.session.v.topic)]>>]

\* the requests request(args) passes to client.request, and its completion
request(this, method, signerAddress) ==
  LET rejected(message) == [ret |-> Error(message), forwarded |-> <<>>]
  IN  IF ~includes(this.methods, method)
      THEN rejected("Invalid method was passed")
      ELSE IF ~startsWith(method, "alph_request") /\ IsUndefined(signerAddress)
      THEN rejected("Cannot request without signerAddress")
      ELSE IF ~startsWith(method, "alph_request") /\ getSelectedAccount(this).threw
      THEN rejected(getSelectedAccount(this).value)
      ELSE IF ~startsWith(method, "alph_request")
                /\ signerAddress.v # getSelectedAccount(this).value.address
      THEN rejected("Invalid signer address")
      ELSE [ret |-> Return(<<>>),
            forwarded |->
              <<[method |-> method,
                 signerAddress |-> signerAddress,
                 chainId |-> this.permittedChain,
                 topic |-> IF IsUndefined(this.session) THEN Undefined
                           ELSE Some(this.session.v.topic)]>>]

(***************************************************************************)
(* Inputs and handlers of the provider of one permitted chain.             *)
(***************************************************************************)
\* opts.methods: left out, or a list of the dapp
MethodsOpts == {Undefined, Some(<<"alph_signMessage", "alph_requestNodeApi">>)}

ProviderOptions ==
  [networkId : ProviderNetworkIds, chainGroup : {Undefined, Num(0)}, methods : MethodsOpts]

SingleRequestMethods ==
  {"alph_signMessage", "alph_signUnsignedTx", "alph_requestNodeApi",
   "alph_requestExplorerApi", "alph_getSelectedAccount"}

\* the topic of the session the wallet approves
SessionTopic == "topic"

\* the session the client restored from its storage, if it holds one
StoredSessions ==
  {Undefined}
    \cup {Some([topic |-> SessionTopic, accounts |-> <<account>>]) :
            account \in WireAccounts}

\* initialize(): createClient and checkStorage
checkStorage(this, stored) ==
  IF IsUndefined(stored) THEN this
  ELSE [this EXCEPT !.session = stored, !.client.live = TRUE]

InitSingle ==
  /\ pc = "done"
  /\ op = "constructor"
  /\ args \in ProviderOptions \X StoredSessions
  /\ ret = Return(<<>>)
  /\ provider = checkStorage(constructor(args[1]), args[2])
  /\ wallet = <<>>
  /\ emitted = <<>>
  /\ forwarded = <<>>
  /\ step = 0

\* the proposal of the client once its session ended, locally or remotely
Ended(client) ==
  [client EXCEPT !.live = FALSE,
                 !.proposal = IF client.proposal = "none" THEN "none"
                              ELSE "awaiting, session ended"]

\* connect() up to its second await: the proposal is sent, the uri displayed
Connect ==
  /\ step < MaxSingleSteps
  /\ IsSingle(provider)
  /\ Handled("connect", <<>>,
             Outcome([provider EXCEPT !.client.proposal = "awaiting"],
                     <<[name |-> "displayUri", data |-> <<>>]>>,
                     Return(<<>>)),
             <<>>)

\* connect() from the approval of the wallet on: the session and its namespaces
Approval ==
  /\ step < MaxSingleSteps
  /\ IsSingle(provider)
  /\ provider.client.proposal # "none"
  /\ \E accounts \in WireAccountLists :
       LET this1 == [provider EXCEPT
                       !.session = Some([topic |-> SessionTopic, accounts |-> accounts]),
                       !.client = [live |-> TRUE, proposal |-> "none"]]
       IN  Handled("approval", <<accounts>>, updateNamespace(this1, accounts), <<>>)

\* connect() when the wallet rejects the proposal: approval() throws
ApprovalRejected ==
  /\ step < MaxSingleSteps
  /\ IsSingle(provider)
  /\ provider.client.proposal # "none"
  /\ Handled("approvalRejected", <<>>,
             Outcome([provider EXCEPT !.client.proposal = "none"], <<>>,
                     Error("User rejected")),
             <<>>)

\* client.on('session_update')
OnSessionUpdate ==
  /\ step < MaxSingleSteps
  /\ IsSingle(provider)
  /\ provider.client.live
  /\ \E accounts \in WireAccountLists :
       LET this1 == [provider EXCEPT
                       !.session = Some([topic |-> SessionTopic, accounts |-> accounts])]
           updated == updateNamespace(this1, accounts)
       IN  Handled("session_update", <<accounts>>,
                   IF updated.ret.threw THEN updated
                   ELSE Outcome(updated.this,
                                updated.emitted
                                  \o <<[name |-> "session_update", data |-> accounts]>>,
                                updated.ret),
                   <<>>)

\* client.on('session_ping') and client.on('session_event'): the event is
\* passed on
OnSessionNotice ==
  /\ step < MaxSingleSteps
  /\ IsSingle(provider)
  /\ provider.client.live
  /\ \E name \in {"session_ping", "session_event"} :
       Handled(name, <<>>,
               Outcome(provider, <<[name |-> name, data |-> <<>>]>>, Return(<<>>)),
               <<>>)

\* client.on('session_delete'): the peer ended the session, the event is
\* passed on
OnSessionDelete ==
  /\ step < MaxSingleSteps
  /\ IsSingle(provider)
  /\ provider.client.live
  /\ Handled("session_delete", <<>>,
             Outcome([provider EXCEPT !.client = Ended(provider.client)],
                     <<[name |-> "session_delete", data |-> <<>>]>>,
                     Return(<<>>)),
             <<>>)

\* disconnect(): the client is asked to end the session of this.session.topic;
\* what the client answers for a session it no longer holds is its own affair
Disconnect ==
  /\ step < MaxSingleSteps
  /\ IsSingle(provider)
  /\ IF IsUndefined(provider.session)
     THEN Handled("disconnect", <<>>, Outcome(provider, <<>>, Error("TypeError")), <<>>)
     ELSE \E completion \in IF provider.client.live THEN {Return(<<>>)}
                            ELSE {Return(<<>>), Error("No matching key")} :
            Handled("disconnect", <<>>,
                    Outcome([provider EXCEPT !.client = Ended(provider.client)],
                            <<>>, completion),
                    <<[method |-> "disconnect", topic |-> provider.session.v.topic]>>)

CallRequest ==
  /\ step < MaxSingleSteps
  /\ IsSingle(provider)
  /\ \E method \in SingleRequestMethods, signerAddress \in SignerAddresses :
       LET result == request(provider, method, signerAddress)
       IN  Handled("request", <<method, signerAddress>>,
                   Outcome(provider, <<>>, result.ret), result.forwarded)

NextSingle ==
  \/ Connect
  \/ Approval
  \/ ApprovalRejected
  \/ OnSessionUpdate
  \/ OnSessionNotice
  \/ OnSessionDelete
  \/ Disconnect
  \/ CallRequest

SpecSingle == InitSingle /\ [][NextSingle]_vars

(***************************************************************************)
(* Both providers: an instance of either class, and its handlers.          *)
(***************************************************************************)
InitProviders == InitSingle \/ InitMulti

NextProviders == NextSingle \/ NextMulti

SpecProviders == InitProviders /\ [][NextProviders]_vars

(***************************************************************************)
(* Calls of the account codec: the initial state holds a pending call.     *)
(***************************************************************************)
\* accounts on the wire, whatever network id and group the sender embedded
AccountWireStrings ==
  {index_formatAccount(index_formatChain(n, g), AccountOf(pk)) :
     n \in 0..MaxWireNetworkId, g \in -1..MaxWireGroup, pk \in PublicKeys}

\* the arguments of formatChain that it accepts
FormatChainArgs ==
  (0..MaxWireNetworkId) \X ({Undefined} \cup {Num(g) : g \in 0..MaxWireGroup})

InitAccountCodec ==
  /\ NoProvider
  /\ pc = "call"
  /\ ret = Pending
  /\ \/ /\ op \in {"parseAccount", "index_parseAccount"}
        /\ args \in {<<account>> : account \in AccountWireStrings}
     \/ /\ op = "parseFormatAccount"
        /\ args \in {<<c[1], c[2], AccountOf(pk)>> : c \in FormatChainArgs, pk \in PublicKeys}

CallParseAccount ==
  /\ pc = "call" /\ op = "parseAccount"
  /\ ret' = Return(parseAccount(args[1]))
  /\ pc' = "done"
  /\ UNCHANGED <<op, args>>
  /\ UNCHANGED objVars

CallIndexParseAccount ==
  /\ pc = "call" /\ op = "index_parseAccount"
  /\ ret' = Return(index_parseAccount(args[1]))
  /\ pc' = "done"
  /\ UNCHANGED <<op, args>>
  /\ UNCHANGED objVars

\* parseAccount(formatAccount(formatChain(networkId, chainGroup), account))
CallParseFormatAccount ==
  /\ pc = "call" /\ op = "parseFormatAccount"
  /\ ret' = Return(parseAccount(formatAccount(
                     formatChain(Num(args[1]), args[2]).value, args[3])))
  /\ pc' = "done"
  /\ UNCHANGED <<op, args>>
  /\ UNCHANGED objVars

NextAccountCodec ==
  \/ CallParseAccount
  \/ CallIndexParseAccount
  \/ CallParseFormatAccount

SpecAccountCodec == InitAccountCodec /\ [][NextAccountCodec]_vars

(***************************************************************************)
(* The wallet clients.  A private key is named by the public key of its    *)
(* PrivateKeyWallet.  What a handler passes to client.approve,             *)
(* client.respond, client.update and client.emit is listed in forwarded;   *)
(* ret is the completion of the handler.                                   *)
(***************************************************************************)
\* the message of an Error: the text of its template
Message(text) == [text |-> text]

\* the message of an Error whose template interpolates a chain
ChainMessage(text, chain) == [text |-> text, chain |-> chain]

\* what a handler of the wallet leaves behind
Sent(this, messages, completion) ==
  [this |-> this, forwarded |-> messages, ret |-> completion]

formatJsonRpcResult(id, result) == [id |-> id, type |-> "result", value |-> result]

formatJsonRpcError(id, message) == [id |-> id, type |-> "error", value |-> message]

\* client.respond({ topic, response }); the response of a thrown Error e is
\* formatJsonRpcError(id, e.message)
Respond(topic, response) ==
  [method |-> "respond", topic |-> topic, payload |-> response]

(***************************************************************************)
(* The wallet client of one permitted chain, src/package.json:129-415.     *)
(***************************************************************************)
WalletClient_methods ==
  <<"alph_signAndSubmitTransferTx", "alph_signAndSubmitDeployContractTx",
    "alph_signAndSubmitExecuteScriptTx", "alph_signAndSubmitUnsignedTx",
    "alph_signUnsignedTx", "alph_signMessage", "alph_requestNodeApi">>

WalletClient_constructor(opts) ==
  [networkId |-> IF IsUndefined(opts.networkId) THEN Num(-1) ELSE opts.networkId,
   permittedChainGroup |-> Undefined,
   signer |-> opts.activePrivateKey,
   topic |-> Undefined,
   namespace |-> Undefined]

\* this is an instance of the class of src/package.json
IsWalletOfOneChain(this) == "permittedChainGroup" \in DOMAIN this

\* the accounts chains.flatMap collects, or the Error of parseChain
RECURSIVE WalletClient_flatAccounts(_, _)
WalletClient_flatAccounts(this, chains) ==
  IF Len(chains) = 0 THEN Return(<<>>)
  ELSE LET parsed == parseChain(Head(chains))
           rest == WalletClient_flatAccounts(this, Tail(chains))
       IN  IF parsed.threw THEN parsed
           ELSE IF rest.threw THEN rest
           ELSE LET chainGroup == parsed.value[2]
                    account == AccountOf(this.signer)
                    group == groupOfAddress(account.address)
                IN  IF StrictEquals(chainGroup, Undefined)
                         \/ StrictEquals(Num(group), chainGroup)
                    THEN Return(<<Head(chains) \o <<":">> \o account.publicKey>>
                                  \o rest.value)
                    ELSE rest

WalletClient_chainAccount(this, chains) ==
  LET accounts == WalletClient_flatAccounts(this, chains)
  IN  IF accounts.threw THEN accounts
      ELSE IF Len(accounts.value) = 0
      THEN Error(Message("WC Client has no account to return"))
      ELSE Return(accounts.value[1])

\* the session_proposal listener; approve is acknowledged with the topic
WalletClient_sessionProposal(this, requiredAlephiumNamespace) ==
  IF IsUndefined(requiredAlephiumNamespace)
  THEN Sent(this, <<>>, Error(Message("alephium namespace is required for session proposal")))
  ELSE LET requiredChains == requiredAlephiumNamespace.v.chains
       IN  IF Len(requiredChains) # 1
           THEN Sent(this, <<>>,
                     Error(ChainMessage("Only single chain is allowed in alephium namespace during session proposal, proposed chains: ${requiredChains}",
                                          Join(requiredChains))))
           ELSE LET parsed == parseChain(requiredChains[1])
                IN  IF parsed.threw THEN Sent(this, <<>>, parsed)
                    ELSE LET this1 == [this EXCEPT
                                         !.networkId = parsed.value[1],
                                         !.permittedChainGroup = parsed.value[2]]
                             account == WalletClient_chainAccount(this1, requiredChains)
                         IN  IF account.threw THEN Sent(this1, <<>>, account)
                             ELSE LET namespace ==
                                        [methods |-> requiredAlephiumNamespace.v.methods,
                                         accounts |-> <<account.value>>]
                                  IN  Sent([this1 EXCEPT !.namespace = Some(namespace),
                                                         !.topic = Some(SessionTopic)],
                                           <<[method |-> "approve", namespaces |-> namespace]>>,
                                           Return(<<>>))

\* mutant: the result of the signer is answered as it is
WalletClient_sessionRequest_anyResult(this, requestEvent, signed) ==
  IF IsUndefined(this.topic) \/ requestEvent.topic # this.topic.v
  THEN Sent(this, <<>>, Return(<<>>))
  ELSE LET parsed == IF IsUndefined(requestEvent.chainId)
                     THEN Error(Message("TypeError"))
                     ELSE parseChain(requestEvent.chainId.v)
       IN  IF parsed.threw THEN Sent(this, <<>>, parsed)
           ELSE LET networkId == parsed.value[1]
                    chainGroup == parsed.value[2]
                    tried ==
                      IF ~(StrictEquals(networkId, this.networkId)
                             /\ isCompatibleChainGroup(chainGroup, this.permittedChainGroup))
                      THEN Error(ChainMessage("Target chain(${chainId}) is not permitted",
                                                requestEvent.chainId.v))
                      ELSE IF ~includes(WalletClient_methods, requestEvent.method)
                      THEN Error([text |-> "Method is not supported: ${request.method}",
                                  method |-> requestEvent.method])
                      ELSE signed
                    response ==
                      IF tried.threw
                      THEN formatJsonRpcError(requestEvent.id, tried.value)
                      ELSE formatJsonRpcResult(requestEvent.id, tried.value)
                IN  Sent(this, <<Respond(requestEvent.topic, response)>>, Return(<<>>))

\* the session_request listener; signed is the completion of the call of
\* the signer or of the node provider the method selects
WalletClient_sessionRequest(this, requestEvent, signed) ==
  IF IsUndefined(this.topic) \/ requestEvent.topic # this.topic.v
  THEN Sent(this, <<>>, Return(<<>>))
  ELSE LET parsed == IF IsUndefined(requestEvent.chainId)
                     THEN Error(Message("TypeError"))
                     ELSE parseChain(requestEvent.chainId.v)
       IN  IF parsed.threw THEN Sent(this, <<>>, parsed)
           ELSE LET networkId == parsed.value[1]
                    chainGroup == parsed.value[2]
                    tried ==
                      IF ~(StrictEquals(networkId, this.networkId)
                             /\ isCompatibleChainGroup(chainGroup, this.permittedChainGroup))
                      THEN Error(ChainMessage("Target chain(${chainId}) is not permitted",
                                                requestEvent.chainId.v))
                      ELSE IF ~includes(WalletClient_methods, requestEvent.method)
                      THEN Error([text |-> "Method is not supported: ${request.method}",
                                  method |-> requestEvent.method])
                      ELSE IF signed.threw THEN signed
                      ELSE IF IsUndefined(signed.value)
                      THEN Error(Message("Result was undefined"))
                      ELSE signed
                    response ==
                      IF tried.threw
                      THEN formatJsonRpcError(requestEvent.id, tried.value)
                      ELSE formatJsonRpcResult(requestEvent.id, tried.value)
                IN  Sent(this, <<Respond(requestEvent.topic, response)>>, Return(<<>>))

(***************************************************************************)
(* The wallet client of several chains, src/unnamed/part_000:40-349; it    *)
(* imports the codec and the reducer of src/src/index.ts.                  *)
(***************************************************************************)
index_WalletClient_methods ==
  <<"alph_signTransferTx", "alph_signContractCreationTx", "alph_signScriptTx",
    "alph_signUnsignedTx", "alph_signHexString", "alph_signMessage">>

\* opts?.networkId || 4: the network id 0 is replaced as well
index_WalletClient_constructor(opts) ==
  [networkId |-> IF IsUndefined(opts.networkId) \/ opts.networkId.v = 0
                 THEN 4 ELSE opts.networkId.v,
   permittedChainGroups |-> Undefined,
   signer |-> opts.activePrivateKey,
   otherSigners |-> opts.otherPrivateKeys,
   topic |-> Undefined,
   namespace |-> Undefined]

\* this is an instance of the class of src/unnamed/part_000
IsWalletOfChains(this) == "otherSigners" \in DOMAIN this

\* get group()
index_WalletClient_group(this) == AccountOf(this.signer).group

\* get currentChain()
index_WalletClient_currentChain(this) ==
  index_formatChain(this.networkId, index_WalletClient_group(this))

\* get accounts()
index_WalletClient_accounts(this) ==
  <<AccountOf(this.signer)>>
    \o [i \in 1..Len(this.otherSigners) |-> AccountOf(this.otherSigners[i])]

RECURSIVE index_WalletClient_chainAccounts(_, _)
index_WalletClient_chainAccounts(this, chains) ==
  IF Len(chains) = 0 THEN <<>>
  ELSE LET chain == Head(chains)
           chainGroup == index_parseChain(chain)[2]
           accounts == index_WalletClient_accounts(this)
           kept == {i \in 1..Len(accounts) :
                      \/ StrictEquals(chainGroup, Num(-1))
                      \/ StrictEquals(Num(groupOfAddress(accounts[i].address)),
                                      chainGroup)}
           ofChain == [i \in 1..Len(accounts) |->
                         chain \o <<":">> \o accounts[i].publicKey]
       IN  PickFrom(ofChain, kept, 1)
             \o index_WalletClient_chainAccounts(this, Tail(chains))

\* the session_proposal listener; approve is acknowledged with the topic
index_WalletClient_sessionProposal(this, requiredAlephiumNamespace) ==
  IF IsUndefined(requiredAlephiumNamespace)
  THEN Sent(this, <<>>, Error(Message("alephium namespace is required for session proposal")))
  ELSE LET requiredChains == requiredAlephiumNamespace.v.chains
       IN  IF Len(requiredChains) = 0
           THEN Sent(this, <<>>,
                     Error(Message("No chain is permitted in alephium namespace during session proposal")))
           ELSE LET chainInfos ==
                      [i \in 1..Len(requiredChains) |->
                         [networkId |-> index_parseChain(requiredChains[i])[1].v,
                          chainGroup |-> index_parseChain(requiredChains[i])[2].v]]
                    this1 == [this EXCEPT !.permittedChainGroups =
                                            Some(getPermittedChainGroups(chainInfos))]
                    namespace ==
                      [methods |-> requiredAlephiumNamespace.v.methods,
                       accounts |-> index_WalletClient_chainAccounts(this1, requiredChains)]
                IN  Sent([this1 EXCEPT !.namespace = Some(namespace),
                                       !.topic = Some(SessionTopic)],
                         <<[method |-> "approve", namespaces |-> namespace]>>,
                         Return(<<>>))

\* updateSession(): client.update with the namespace of the session
index_WalletClient_updateSession(this) ==
  IF IsUndefined(this.topic) \/ IsUndefined(this.namespace) THEN <<>>
  ELSE <<[method |-> "update", topic |-> this.topic.v,
          namespaces |-> this.namespace.v]>>

\* client.emit({ topic, event, chainId })
Emit(topic, event, chainId) ==
  [method |-> "emit", topic |-> topic, event |-> event, chainId |-> chainId]

index_WalletClient_emitAccountsChangedEvent(this, chainId) ==
  IF IsUndefined(this.topic) THEN <<>>
  ELSE <<Emit(this.topic.v,
              [name |-> "accountsChanged",
               data |-> <<index_formatAccount(chainId, AccountOf(this.signer))>>],
              chainId)>>

index_WalletClient_emitChainChangedEvent(this, chainId) ==
  IF IsUndefined(this.topic) THEN <<>>
  ELSE <<Emit(this.topic.v,
              [name |-> "networkChanged", data |-> this.networkId],
              chainId)>>

index_WalletClient_updateAccounts(this, chainId) ==
  index_WalletClient_updateSession(this)
    \o index_WalletClient_emitAccountsChangedEvent(this, chainId)

index_WalletClient_updateChainId(this, chainId) ==
  index_WalletClient_updateSession(this)
    \o index_WalletClient_emitChainChangedEvent(this, chainId)

\* mutant: the signer is replaced before the chain is looked up
index_WalletClient_changeAccount_assignsFirst(this, privateKey) ==
  LET wallet0 == AccountOf(privateKey)
      this1 == [this EXCEPT !.signer = privateKey]
      changedChainId ==
        getPermittedChainId(this.networkId, wallet0.group, this.permittedChainGroups)
  IN  IF IsUndefined(changedChainId)
      THEN Sent(this1, <<>>,
                Error(ChainMessage("Error changing account, chain ${formatChain(this.networkId, wallet.group)} not permitted",
                                   index_formatChain(this.networkId, wallet0.group))))
      ELSE Sent(this1, index_WalletClient_updateAccounts(this1, changedChainId.v),
                Return(<<>>))

index_WalletClient_changeAccount(this, privateKey) ==
  LET wallet0 == AccountOf(privateKey)
      changedChainId ==
        getPermittedChainId(this.networkId, wallet0.group, this.permittedChainGroups)
  IN  IF IsUndefined(changedChainId)
      THEN Sent(this, <<>>,
                Error(ChainMessage("Error changing account, chain ${formatChain(this.networkId, wallet.group)} not permitted",
                                   index_formatChain(this.networkId, wallet0.group))))
      ELSE LET this1 == [this EXCEPT !.signer = privateKey]
           IN  Sent(this1, index_WalletClient_updateAccounts(this1, changedChainId.v),
                    Return(<<>>))

index_WalletClient_changeChain(this, networkId) ==
  LET changedChainId ==
        getPermittedChainId(networkId, index_WalletClient_group(this),
                            this.permittedChainGroups)
  IN  IF IsUndefined(changedChainId)
      THEN Sent(this, <<>>,
                Error(ChainMessage("Error changing network id ${networkId}, chain ${formatChain(networkId, this.group)} not permitted",
                                   index_formatChain(networkId,
                                                     index_WalletClient_group(this)))))
      ELSE LET this1 == [this EXCEPT !.networkId = networkId]
           IN  Sent(this1, index_WalletClient_updateChainId(this1, changedChainId.v),
                    Return(<<>>))

\* the session_request listener; signed is the completion of the call of
\* the signer the method selects
index_WalletClient_sessionRequest(this, requestEvent, signed) ==
  IF IsUndefined(this.topic) \/ requestEvent.topic # this.topic.v
  THEN Sent(this, <<>>, Return(<<>>))
  ELSE LET tried ==
             IF IsUndefined(requestEvent.chainId)
             THEN Error(Message("Missing target chain"))
             ELSE IF index_WalletClient_currentChain(this) # requestEvent.chainId.v
             THEN Error(ChainMessage("Target chain (${chainId}) does not match current chain (${this.currentChain})",
                                     requestEvent.chainId.v))
             ELSE IF ~includes(index_WalletClient_methods, requestEvent.method)
             THEN Error([text |-> "Method not supported: ${request.method}",
                         method |-> requestEvent.method])
             ELSE IF signed.threw THEN signed
             ELSE IF IsUndefined(signed.value)
             THEN Error(Message("Result was undefined"))
             ELSE signed
           response ==
             IF tried.threw
             THEN formatJsonRpcError(requestEvent.id, tried.value)
             ELSE formatJsonRpcResult(requestEvent.id, tried.value)
       IN  Sent(this, <<Respond(requestEvent.topic, response)>>, Return(<<>>))

(***************************************************************************)
(* Inputs and handlers of the wallet clients.                              *)
(***************************************************************************)
WalletOptions ==
  {[activePrivateKey |-> active, otherPrivateKeys |-> others, networkId |-> networkId] :
     active \in WalletKeys,
     others \in {<<>>, <<<<"k", "1">>>>},
     networkId \in {Undefined, Num(0), Num(1)}}

\* chains a dapp proposes; the last one encodes a group below -1
ProposedChains ==
  {index_formatChain(1, -1), index_formatChain(4, 1), index_formatChain(1, -2)}

\* requiredNamespaces[PROVIDER_NAMESPACE] of a proposal
ProposedNamespaces ==
  {Undefined}
    \cup {Some([chains |-> chains, methods |-> <<"alph_signMessage">>]) :
            chains \in UNION {[1..n -> ProposedChains] : n \in 0..MaxPermittedChains}}

\* params.chainId of a request
RequestChainIds ==
  {Undefined}
    \cup {Some(index_formatChain(n, g)) : n \in {1, 4}, g \in {-2, -1, 1}}

RequestEvents ==
  [topic : {SessionTopic, "other"}, id : {1}, chainId : RequestChainIds,
   method : {"alph_signMessage", "alph_unknown"}]

\* what the signer answers: nothing, a result, or a rejection
SignerCompletions ==
  {Return(Undefined), Return(Some("signature")), Error(Message("signer failed"))}

\* network ids the user of the wallet switches to
ChangedNetworkIds == {0, 1, 4}

InitWallet ==
  /\ pc = "done"
  /\ op \in {"WalletClient", "index_WalletClient"}
  /\ args \in {<<opts>> : opts \in WalletOptions}
  /\ ret = Return(<<>>)
  /\ wallet = IF op = "WalletClient"
              THEN WalletClient_constructor(args[1])
              ELSE index_WalletClient_constructor(args[1])
  /\ provider = <<>>
  /\ emitted = <<>>
  /\ forwarded = <<>>
  /\ step = 0

\* what every handler of a wallet does to the variables
WalletHandled(name, arguments, outcome) ==
  /\ step' = step + 1
  /\ pc' = "done"
  /\ op' = name
  /\ args' = arguments
  /\ wallet' = outcome.this
  /\ forwarded' = outcome.forwarded
  /\ ret' = outcome.ret
  /\ UNCHANGED <<provider, emitted>>

OnSessionProposal ==
  /\ step < MaxWalletSteps
  /\ IsWalletOfOneChain(wallet)
  /\ \E required \in ProposedNamespaces :
       WalletHandled("session_proposal", <<required>>,
                     WalletClient_sessionProposal(wallet, required))

OnSessionRequest ==
  /\ step < MaxWalletSteps
  /\ IsWalletOfOneChain(wallet)
  /\ \E requestEvent \in RequestEvents, signed \in SignerCompletions :
       WalletHandled("session_request", <<requestEvent, signed>>,
                     WalletClient_sessionRequest(wallet, requestEvent, signed))

index_OnSessionProposal ==
  /\ step < MaxWalletSteps
  /\ IsWalletOfChains(wallet)
  /\ \E required \in ProposedNamespaces :
       WalletHandled("session_proposal", <<required>>,
                     index_WalletClient_sessionProposal(wallet, required))

index_OnSessionRequest ==
  /\ step < MaxWalletSteps
  /\ IsWalletOfChains(wallet)
  /\ \E requestEvent \in RequestEvents, signed \in SignerCompletions :
       WalletHandled("session_request", <<requestEvent, signed>>,
                     index_WalletClient_sessionRequest(wallet, requestEvent, signed))

ChangeAccount ==
  /\ step < MaxWalletSteps
  /\ IsWalletOfChains(wallet)
  /\ \E privateKey \in WalletKeys :
       WalletHandled("changeAccount", <<privateKey>>,
                     index_WalletClient_changeAccount(wallet, privateKey))

ChangeChain ==
  /\ step < MaxWalletSteps
  /\ IsWalletOfChains(wallet)
  /\ \E networkId \in ChangedNetworkIds :
       WalletHandled("changeChain", <<networkId>>,
                     index_WalletClient_changeChain(wallet, networkId))

NextWallet ==
  \/ OnSessionProposal
  \/ OnSessionRequest
  \/ index_OnSessionProposal
  \/ index_OnSessionRequest
  \/ ChangeAccount
  \/ ChangeChain

SpecWallet == InitWallet /\ [][NextWallet]_vars

(***************************************************************************)
(* The first provider of src/src/index.ts, lines 95-345.  Its ChainInfo    *)
(* objects are kept in a heap, so that two fields can hold the same        *)
(* object: permittedChainsInfo lists references into the heap and          *)
(* currentChainInfo is one reference.  A ChainInfo that setChain creates   *)
(* takes the place after the permitted ones; the one it replaces there is  *)
(* referenced by nothing any more.                                         *)
(***************************************************************************)
legacy_parseChain(chainString) ==
  LET segs == Split(ReplaceSlashes(chainString), ":")
      chainGroupDecoded == ParseIntAt(segs, 3)
  IN  <<ParseIntAt(segs, 2),
        IF StrictEquals(chainGroupDecoded, Num(-1)) THEN Undefined ELSE chainGroupDecoded>>

\* account.replace(/\+|\//g, ":").split(":"); +group of a decimal numeral
legacy_parseAccount(account) ==
  LET replaced == [i \in 1..Len(account) |->
                     IF account[i] \in {"+", "/"} THEN ":" ELSE account[i]]
      segs == Split(replaced, ":")
  IN  [address |-> segs[4], publicKey |-> segs[5], group |-> ParseIntAt(segs, 3)]

legacy_formatAccount(permittedChain, account) ==
  permittedChain \o <<":">> \o account.address \o <<"+">> \o account.publicKey

\* new WalletConnectProvider(opts), with opts.permittedChains not empty:
\* currentChainInfo is the object opts.permittedChains[0]
legacy_constructor(permittedChains) ==
  [heap |-> permittedChains,
   permittedChainsInfo |-> [i \in 1..Len(permittedChains) |-> i],
   currentChainInfo |-> 1,
   accounts |-> <<>>,
   lastSetChains |-> Undefined,
   lastSetAccounts |-> Undefined]

\* this is an instance of the first class of src/src/index.ts
IsLegacy(this) == "permittedChainsInfo" \in DOMAIN this

legacy_setChain(this, chains) ==
  IF ~IsUndefined(this.lastSetChains) /\ Join(chains) = Join(this.lastSetChains.v)
  THEN Outcome(this, <<>>, Return(<<>>))
  ELSE LET this1 == [this EXCEPT !.lastSetChains = Some(chains)]
           isCompatibleChain(chain) ==
             Len(chain) >= 9 /\ SubSeq(chain, 1, 9) = ALEPHIUM_NAMESPACE \o <<":">>
           compatible == Filter(chains, isCompatibleChain)
       IN  IF Len(compatible) # 0
           THEN LET parsed == legacy_parseChain(compatible[1])
                    created == [networkId |-> parsed[1], chainGroup |-> parsed[2]]
                    place == Len(this1.permittedChainsInfo) + 1
                IN  Outcome([this1 EXCEPT
                               !.heap = IF Len(this1.heap) < place
                                        THEN Append(this1.heap, created)
                                        ELSE [this1.heap EXCEPT ![place] = created],
                               !.currentChainInfo = place],
                            <<[name |-> "networkChanged", data |-> parsed[1]]>>,
                            Return(<<>>))
           ELSE Outcome(this1, <<>>, Return(<<>>))

legacy_setAccounts(this, accounts) ==
  LET parsedAccounts == Map(accounts, legacy_parseAccount)
  IN  IF index_sameAccounts(parsedAccounts, this.lastSetAccounts)
      THEN Outcome(this, <<>>, Return(<<>>))
      ELSE LET this1 == [this EXCEPT !.lastSetAccounts = Some(parsedAccounts)]
               Compatible(account) ==
                 isCompatibleChainGroup(account.group,
                                        this1.heap[this1.currentChainInfo].chainGroup)
               newAccounts == Filter(parsedAccounts, Compatible)
           IN  IF ~index_sameAccounts(newAccounts, Some(this1.accounts))
               THEN Outcome([this1 EXCEPT !.accounts = newAccounts],
                            <<[name |-> "accountsChanged", data |-> newAccounts]>>,
                            Return(<<>>))
               ELSE Outcome(this1, <<>>, Return(<<>>))

\* the listener of SIGNER_EVENTS.created and of SIGNER_EVENTS.updated
legacy_session(this, accounts) ==
  LET chain == legacy_setChain(this, getChainsFromNamespaces(accounts))
      set == legacy_setAccounts(chain.this, accounts)
  IN  Outcome(set.this, chain.emitted \o set.emitted, Return(<<>>))

\* the listener of SIGNER_EVENTS.event
legacy_event(this, event) ==
  IF event.name = "accountsChanged"
  THEN legacy_setAccounts(this, event.data)
  ELSE IF event.name = "networkChanged"
  THEN LET this1 == [this EXCEPT !.heap[this.currentChainInfo].networkId = event.data]
       IN  Outcome(this1,
                   <<[name |-> "networkChanged",
                      data |-> this1.heap[this1.currentChainInfo].networkId]>>,
                   Return(<<>>))
  ELSE Outcome(this, <<event>>, Return(<<>>))

(***************************************************************************)
(* Inputs and handlers of the first provider.                              *)
(***************************************************************************)
LegacyChainInfos ==
  [networkId : {Num(n) : n \in ProviderNetworkIds}, chainGroup : {Undefined, Num(0)}]

\* accounts as the wallet puts them on the wire; the last is of another
\* namespace
LegacyWireAccounts ==
  {legacy_formatAccount(index_formatChain(0, -1), AccountOf(<<"k", "0">>)),
   legacy_formatAccount(index_formatChain(1, 0), AccountOf(<<"k", "1">>)),
   legacy_formatAccount(<<"b", "i", "p", ":", "1", "/", "0">>, AccountOf(<<"k", "0">>))}

LegacyWireAccountLists == UNION {[1..n -> LegacyWireAccounts] : n \in 0..MaxAccounts}

LegacyEvents ==
  {[name |-> "accountsChanged", data |-> accounts] : accounts \in LegacyWireAccountLists}
    \cup {[name |-> "networkChanged", data |-> Num(n)] : n \in ProviderNetworkIds}
    \cup {[name |-> "chainChanged", data |-> <<>>]}

InitLegacy ==
  /\ pc = "done"
  /\ op = "constructor"
  /\ args \in {<<permittedChains>> :
                 permittedChains \in UNION {[1..n -> LegacyChainInfos] :
                                              n \in 1..MaxPermittedChains}}
  /\ ret = Return(<<>>)
  /\ provider = legacy_constructor(args[1])
  /\ wallet = <<>>
  /\ emitted = <<>>
  /\ forwarded = <<>>
  /\ step = 0

\* signer.on("connect")
legacy_OnConnect ==
  /\ step < MaxSteps
  /\ IsLegacy(provider)
  /\ \E accounts \in LegacyWireAccountLists :
       LET chains == getChainsFromNamespaces(accounts)
           chain == IF Len(chains) # 0 THEN legacy_setChain(provider, chains)
                    ELSE Outcome(provider, <<>>, Return(<<>>))
           set == IF Len(accounts) # 0 THEN legacy_setAccounts(chain.this, accounts)
                  ELSE Outcome(chain.this, <<>>, Return(<<>>))
       IN  Handled("connect", <<accounts>>,
                   Outcome(set.this,
                           chain.emitted \o set.emitted
                             \o <<[name |-> "connect", data |-> <<>>]>>,
                           Return(<<>>)),
                   <<>>)

legacy_OnSession ==
  /\ step < MaxSteps
  /\ IsLegacy(provider)
  /\ \E accounts \in LegacyWireAccountLists :
       Handled("session", <<accounts>>, legacy_session(provider, accounts), <<>>)

legacy_OnEvent ==
  /\ step < MaxSteps
  /\ IsLegacy(provider)
  /\ \E event \in LegacyEvents :
       Handled("event", <<event>>, legacy_event(provider, event), <<>>)

NextLegacy == legacy_OnConnect \/ legacy_OnSession \/ legacy_OnEvent

SpecLegacy == InitLegacy /\ [][NextLegacy]_vars

(***************************************************************************)
(* Properties of the codec.                                                *)
(***************************************************************************)
\* s is the decimal notation of the natural number n, without sign
IsDecimalOf(s, n) ==
  /\ Len(s) > 0
  /\ \A i \in 1..Len(s) : IsDigit(s[i])
  /\ (Len(s) > 1 => s[1] # "0")
  /\ DigitsValue(s) = n

\* s is a non-empty string of decimal digits
IsDecimalText(s) == Len(s) > 0 /\ \A i \in 1..Len(s) : IsDigit(s[i])

AlephiumPrefix == <<"a", "l", "e", "p", "h", "i", "u", "m", ":">>

\* s is prefix \o left \o <<"/">> \o right with Left(left) and Right(right)
HasChainForm(s, Left(_), Right(_)) ==
  /\ Len(s) > Len(AlephiumPrefix)
  /\ SubSeq(s, 1, Len(AlephiumPrefix)) = AlephiumPrefix
  /\ \E k \in (Len(AlephiumPrefix) + 1)..Len(s) :
       /\ s[k] = "/"
       /\ Left(SubSeq(s, Len(AlephiumPrefix) + 1, k - 1))
       /\ Right(SubSeq(s, k + 1, Len(s)))

\* s is "alephium:<non-negative integer>/<integer >= -1>"
WellFormedChain(s) ==
  LET Left(l) == IsDecimalText(l)
      Right(r) == r = <<"-", "1">> \/ IsDecimalText(r)
  IN  HasChainForm(s, Left, Right)

\* the group segment of a wire string, read as parseInt reads it
GroupSegment(s) == ParseIntAt(Split(ReplaceSlashes(s), ":"), 3)

\* C1: for every network id n >= 0 and every group g that is the any-group
\* value or an integer >= 0, parseChain(formatChain(n, g)) returns (n, g).
C1_ParseFormatRoundTrip ==
  (/\ pc = "done" /\ op = "parseFormatChain"
   /\ args[1].v >= 0
   /\ (IsUndefined(args[2]) \/ args[2].v >= 0))
    => (~ret.threw /\ ret.value = <<args[1], args[2]>>)

\* the any-group value and a two-digit network id went through the round trip
C1_Witness ==
  /\ pc = "done" /\ op = "parseFormatChain"
  /\ args[1].v >= 10 /\ IsUndefined(args[2])
  /\ ~ret.threw /\ IsUndefined(ret.value[2]) /\ ret.value[1] = args[1]

\* C2: formatChain(n, g) is "alephium:<n>/<g>" for a concrete group g >= 0 and
\* "alephium:<n>/-1" for the any-group value.
C2_FormatChainText ==
  (/\ pc = "done" /\ op = "formatChain"
   /\ (IsUndefined(args[2]) \/ args[2].v >= 0))
    => /\ ~ret.threw
       /\ LET Left(l) == IsDecimalOf(l, args[1].v)
              Right(r) == IF IsUndefined(args[2]) THEN r = <<"-", "1">>
                          ELSE IsDecimalOf(r, args[2].v)
          IN  HasChainForm(ret.value, Left, Right)

\* a two-digit network id and a two-digit concrete group were formatted
C2_Witness ==
  /\ pc = "done" /\ op = "formatChain"
  /\ args[1].v >= 10 /\ IsNum(args[2]) /\ args[2].v >= 10
  /\ ~ret.threw /\ Len(ret.value) = Len(AlephiumPrefix) + 5

C4_ParseChainGroup ==
  (pc = "done" /\ op = "parseChain")
    => LET group == GroupSegment(args[1])
       IN  /\ (IsNum(group) /\ group.v < -1) => ret.threw
           /\ (IsNum(group) /\ group.v = -1)
                => (~ret.threw /\ IsUndefined(ret.value[2]))
           /\ (IsNum(group) /\ group.v >= 0)
                => (~ret.threw /\ ret.value[2] = group)

\* a well-prefixed wire string with a group below -1 was parsed and rejected
C4_Witness ==
  /\ pc = "done" /\ op = "parseChain"
  /\ Len(args[1]) > Len(AlephiumPrefix)
  /\ SubSeq(args[1], 1, Len(AlephiumPrefix)) = AlephiumPrefix
  /\ IsNum(GroupSegment(args[1])) /\ GroupSegment(args[1]).v < -1
  /\ ret.threw

\* C5: parseChain fails for every input string that is not of the form
\* "alephium:<non-negative integer>/<integer >= -1>".
C5_ParseChainRejectsMalformed ==
  (pc = "done" /\ op = "parseChain" /\ ~WellFormedChain(args[1]))
    => ret.threw

\* C6: isCompatibleChainGroup(g, expected) is true exactly when expected is the
\* any-group value or expected equals g.
C6_CompatibleChainGroup ==
  (pc = "done" /\ op = "isCompatibleChainGroup")
    => (ret.value = (IsUndefined(args[2]) \/ args[2] = args[1]))

\* a concrete group was tested against the any-group value and accepted
C6_Witness ==
  /\ pc = "done" /\ op = "isCompatibleChainGroup"
  /\ IsNum(args[1]) /\ IsUndefined(args[2])
  /\ ret.value = TRUE

(***************************************************************************)
(* Properties of the reducer.                                              *)
(***************************************************************************)
\* the position of the first entry (networkId, chainGroup) of infos
FirstIndex(infos, networkId, chainGroup) ==
  CHOOSE k \in 1..Len(infos) :
    /\ infos[k] = [networkId |-> networkId, chainGroup |-> chainGroup]
    /\ \A j \in 1..(k - 1) :
         infos[j] # [networkId |-> networkId, chainGroup |-> chainGroup]

\* the positions of infos that name the network
IndicesOf(infos, networkId) == {i \in 1..Len(infos) : infos[i].networkId = networkId}

\* C7: in the table of getPermittedChainGroups a list that contains the
\* any-group value -1 is exactly [-1]; a network for which the input names -1,
\* before or after concrete groups, is mapped to [-1].
C7_AnyGroupIsAlone ==
  (pc = "done" /\ op = "getPermittedChainGroups")
    => LET infos == args[1]
           table == ret.value
       IN  /\ \A n \in DOMAIN table : includes(table[n], -1) => table[n] = <<-1>>
           /\ \A i \in 1..Len(infos) :
                infos[i].chainGroup = -1
                  => /\ infos[i].networkId \in DOMAIN table
                     /\ table[infos[i].networkId] = <<-1>>

\* one network was given a concrete group, then -1, then a concrete group
C7_Witness ==
  /\ pc = "done" /\ op = "getPermittedChainGroups"
  /\ \E i, j, k \in 1..Len(args[1]) :
       /\ i < j /\ j < k
       /\ args[1][i].networkId = args[1][j].networkId
       /\ args[1][j].networkId = args[1][k].networkId
       /\ args[1][i].chainGroup >= 0
       /\ args[1][j].chainGroup = -1
       /\ args[1][k].chainGroup >= 0
       /\ ret.value[args[1][j].networkId] = <<-1>>

\* C8: each list of the table is free of duplicates, and its concrete groups
\* stand in the order of their first occurrence in the input.
C8_NoDuplicatesInFirstOccurrenceOrder ==
  (pc = "done" /\ op = "getPermittedChainGroups")
    => LET infos == args[1]
           table == ret.value
       IN  \A n \in DOMAIN table :
             /\ \A i, j \in 1..Len(table[n]) : i # j => table[n][i] # table[n][j]
             /\ ~includes(table[n], -1)
                  => /\ \A i \in 1..Len(table[n]) :
                          \E k \in IndicesOf(infos, n) : infos[k].chainGroup = table[n][i]
                     /\ \A i, j \in 1..Len(table[n]) :
                          i < j => FirstIndex(infos, n, table[n][i])
                                     < FirstIndex(infos, n, table[n][j])

\* a network was given a group twice and a smaller group in between
C8_Witness ==
  /\ pc = "done" /\ op = "getPermittedChainGroups"
  /\ \E n \in DOMAIN ret.value :
       /\ Cardinality(IndicesOf(args[1], n)) >= 3
       /\ Len(ret.value[n]) = 2
       /\ ret.value[n][1] > ret.value[n][2]
       /\ ret.value[n][2] >= 0

\* C9: getPermittedChainGroups([]) is the empty table; the keys of the result
\* are the network ids of the input and no key is mapped to an empty list.
C9_KeysAndNonEmptyLists ==
  (pc = "done" /\ op = "getPermittedChainGroups")
    => LET infos == args[1]
           table == ret.value
       IN  /\ (Len(infos) = 0 => DOMAIN table = {})
           /\ DOMAIN table = {infos[i].networkId : i \in 1..Len(infos)}
           /\ \A n \in DOMAIN table : Len(table[n]) > 0

\* two networks were requested, one of them with the any-group value only
C9_Witness ==
  /\ pc = "done" /\ op = "getPermittedChainGroups"
  /\ Cardinality(DOMAIN ret.value) = 2
  /\ \E n \in DOMAIN ret.value :
       /\ \A i \in IndicesOf(args[1], n) : args[1][i].chainGroup = -1
       /\ Len(ret.value[n]) = 1

\* C10: when the list of network n contains the any-group value,
\* getPermittedChainId(n, g, table) is "alephium:<n>/-1" for every concrete g.
C10_AnyGroupChainId ==
  (/\ pc = "done" /\ op = "getPermittedChainId"
   /\ ~IsUndefined(args[3])
   /\ args[1] \in DOMAIN args[3].v
   /\ includes(args[3].v[args[1]], -1)
   /\ args[2] >= 0)
    => /\ ~IsUndefined(ret.value)
       /\ LET Left(l) == IsDecimalOf(l, args[1])
              Right(r) == r = <<"-", "1">>
          IN  HasChainForm(ret.value.v, Left, Right)

\* a concrete group was resolved against a network that permits any group
C10_Witness ==
  /\ pc = "done" /\ op = "getPermittedChainId"
  /\ ~IsUndefined(args[3])
  /\ args[1] \in DOMAIN args[3].v
  /\ args[3].v[args[1]] = <<-1>>
  /\ args[2] >= 1
  /\ ~IsUndefined(ret.value)

\* C11: getPermittedChainId(n, g, table) is undefined when the table is absent,
\* when n is not a key of it, or when the list of n holds only concrete groups
\* and g is not among them; when g is among the concrete groups of n the result
\* is "alephium:<n>/<g>".
C11_ConcreteGroupChainId ==
  (pc = "done" /\ op = "getPermittedChainId")
    => LET n == args[1]
           g == args[2]
           absent == IsUndefined(args[3]) \/ n \notin DOMAIN args[3].v
       IN  /\ absent => IsUndefined(ret.value)
           /\ (~absent /\ ~includes(args[3].v[n], -1) /\ ~includes(args[3].v[n], g))
                => IsUndefined(ret.value)
           /\ (~absent /\ ~includes(args[3].v[n], -1) /\ includes(args[3].v[n], g))
                => /\ ~IsUndefined(ret.value)
                   /\ LET Left(l) == IsDecimalOf(l, n)
                          Right(r) == IsDecimalOf(r, g)
                      IN  HasChainForm(ret.value.v, Left, Right)

\* a concrete group was refused by a network that lists other concrete groups
C11_Witness ==
  /\ pc = "done" /\ op = "getPermittedChainId"
  /\ ~IsUndefined(args[3])
  /\ args[1] \in DOMAIN args[3].v
  /\ Len(args[3].v[args[1]]) = 2
  /\ args[2] >= 0
  /\ ~includes(args[3].v[args[1]], args[2])
  /\ IsUndefined(ret.value)

(***************************************************************************)
(* Properties of the providers.                                            *)
(***************************************************************************)
\* the public-key segment of a wire account: the text behind its last ":"
KeySegment(account) ==
  LET last == CHOOSE k \in 1..Len(account) :
                /\ account[k] = ":"
                /\ \A j \in (k + 1)..Len(account) : account[j] # ":"
  IN  SubSeq(account, last + 1, Len(account))

\* the accounts a wire list names, in wire order
Decoded(accounts) == [i \in 1..Len(accounts) |-> AccountOf(KeySegment(accounts[i]))]

\* the addresses of a list of accounts, in order
Addresses(accounts) == [i \in 1..Len(accounts) |-> accounts[i].address]

AddressSet(accounts) == {accounts[i].address : i \in 1..Len(accounts)}

\* the events of a handler that announce accounts
AccountEvents(events) ==
  LET IsAccountEvent(e) == e.name \in {"accountsChanged", "accountChanged"}
  IN  SelectSeq(events, IsAccountEvent)

\* the handlers that deliver an account list
AccountUpdates ==
  {"connect", "updateNamespace", "accountsChanged", "approval", "session_update"}

\* the first account of each address, in order
RECURSIVE FirstOccurrences(_, _)
FirstOccurrences(accounts, seen) ==
  IF accounts = <<>> THEN <<>>
  ELSE IF Head(accounts).address \in seen
       THEN FirstOccurrences(Tail(accounts), seen)
       ELSE <<Head(accounts)>>
              \o FirstOccurrences(Tail(accounts), seen \cup {Head(accounts).address})

\* the accounts of a wire list that the groups permit
PermittedSubset(accounts, groups) ==
  LET Permitted(a) == \E i \in 1..Len(groups) : groups[i] \in {-1, a.group}
  IN  FirstOccurrences(SelectSeq(Decoded(accounts), Permitted), {})

C13_SameAddressSetIsNoOp ==
  [][(/\ IsMulti(provider) /\ op' = "accountsChanged"
      /\ ~IsUndefined(provider.lastSetAccounts)
      /\ AddressSet(Decoded(args'[1])) = AddressSet(provider.lastSetAccounts.v))
       => (provider'.accounts = provider.accounts /\ AccountEvents(emitted') = <<>>)]_vars

\* C14: every exposed account has a group that the list of the current
\* network permits.
C14_AccountsArePermitted ==
  IsMulti(provider)
    => \A i \in 1..Len(provider.accounts) :
         /\ provider.networkId \in DOMAIN provider.permittedChainGroups
         /\ LET groups == provider.permittedChainGroups[provider.networkId]
            IN  \E k \in 1..Len(groups) :
                  groups[k] \in {-1, provider.accounts[i].group}

\* C15: a delivery of a list that differs from the last observed one, whose
\* permitted subset is not empty and differs from the exposed accounts, makes
\* that subset (wire order, first occurrence per address) the exposed accounts
\* and emits one accountsChanged event that carries it.
C15_AcceptedListIsExposed ==
  [][(/\ IsMulti(provider)
      /\ op' \in {"connect", "updateNamespace", "accountsChanged"}
      /\ provider'.networkId \in DOMAIN provider'.permittedChainGroups
      /\ (IsUndefined(provider.lastSetAccounts)
            \/ Addresses(Decoded(args'[1])) # Addresses(provider.lastSetAccounts.v))
      /\ LET subset == PermittedSubset(args'[1],
                         provider'.permittedChainGroups[provider'.networkId])
         IN  subset # <<>> /\ Addresses(subset) # Addresses(provider.accounts))
       => LET subset == PermittedSubset(args'[1],
                          provider'.permittedChainGroups[provider'.networkId])
          IN  /\ provider'.accounts = subset
              /\ AccountEvents(emitted')
                   = <<[name |-> "accountsChanged", data |-> subset]>>]_vars

\* a list of two accounts was delivered to a provider whose network permits
\* one concrete group: the account of the other group is not exposed
C15_Witness ==
  /\ IsMulti(provider) /\ op \in {"updateNamespace", "accountsChanged"}
  /\ Len(args[1]) = 2
  /\ Decoded(args[1])[1].group # Decoded(args[1])[2].group
  /\ provider.networkId \in DOMAIN provider.permittedChainGroups
  /\ provider.permittedChainGroups[provider.networkId] = <<0>>
  /\ Len(provider.accounts) = 1 /\ provider.accounts[1].group = 0
  /\ Len(emitted) = 1 /\ emitted[1].name = "accountsChanged"
  /\ emitted[1].data = provider.accounts

\* the methods that sign: all but the requests of the node and explorer APIs
IsSignerMethod(method) ==
  method \notin {"alph_requestNodeApi", "alph_requestExplorerApi"}

\* C16: a forwarded request of a signer method carries the address of the
\* selected account; a request of a signer method without signer address, with
\* another address, or without a selected account is rejected and not forwarded.
C16_SignerIsSelectedAccount ==
  (IsSingle(provider) /\ op = "request" /\ IsSignerMethod(args[1]))
    => /\ \A i \in 1..Len(forwarded) :
            /\ ~IsUndefined(forwarded[i].signerAddress)
            /\ ~IsUndefined(provider.account)
            /\ forwarded[i].signerAddress.v = provider.account.v.address
       /\ (\/ IsUndefined(args[2])
           \/ IsUndefined(provider.account)
           \/ args[2].v # provider.account.v.address)
            => (ret.threw /\ forwarded = <<>>)

\* a signing request with the address of the selected account was forwarded
C16_Witness ==
  /\ IsSingle(provider) /\ op = "request" /\ args[1] = "alph_signMessage"
  /\ ~IsUndefined(provider.account)
  /\ Len(forwarded) = 1
  /\ forwarded[1].signerAddress = Some(provider.account.v.address)
  /\ ~ret.threw

\* C17: a request of a method that is not in the method list of the provider
\* is rejected with the error "Invalid method was passed" and not forwarded.
C17_UnknownMethodRejected ==
  (op = "request" /\ \A i \in 1..Len(provider.methods) : provider.methods[i] # args[1])
    => (ret.threw /\ ret.value = "Invalid method was passed" /\ forwarded = <<>>)

\* a provider with a selected account and a method list of its own rejected a
\* signing method that is not in the list, asked with the selected address
C17_Witness ==
  /\ IsSingle(provider) /\ op = "request" /\ args[1] = "alph_signUnsignedTx"
  /\ Len(provider.methods) = 2
  /\ ~IsUndefined(provider.account)
  /\ args[2] = Some(provider.account.v.address)
  /\ ret.threw /\ forwarded = <<>>

\* C18: a forwarded request carries the chain id that getPermittedChainId
\* gives for the current network and the group of the signer account.
C18_ForwardedChainIsPermitted ==
  (IsMulti(provider) /\ op = "request")
    => \A i \in 1..Len(forwarded) :
         \E k \in 1..Len(provider.accounts) :
           /\ provider.accounts[k].address = forwarded[i].signerAddress.v
           /\ Some(forwarded[i].chainId)
                = getPermittedChainId(provider.networkId, provider.accounts[k].group,
                                      Some(provider.permittedChainGroups))

\* C19: parseAccount returns the account of the public-key segment, whatever
\* network id and group the wire string embeds: every wire string with the
\* same public key decodes to the same account.
C19_OnlyKeySegmentCounts ==
  (pc = "done" /\ op \in {"parseAccount", "index_parseAccount"})
    => /\ ret.value = AccountOf(KeySegment(args[1]))
       /\ \A other \in AccountWireStrings :
            KeySegment(other) = KeySegment(args[1])
              => (IF op = "parseAccount" THEN parseAccount(other)
                  ELSE index_parseAccount(other)) = ret.value

\* a wire string that embeds group 0 decoded to an account of group 3
C19_Witness ==
  /\ pc = "done" /\ op = "parseAccount"
  /\ GroupSegment(args[1]) = Num(0)
  /\ ret.value.group = 3

\* C20: parseAccount(formatAccount(c, a)) has the public key and the address
\* of a, for every chain string c of formatChain and every account a of a key.
C20_AccountRoundTrip ==
  (pc = "done" /\ op = "parseFormatAccount")
    => /\ ret.value.publicKey = args[3].publicKey
       /\ ret.value.address = args[3].address

\* an account of group 3 went through an any-group chain string
C20_Witness ==
  /\ pc = "done" /\ op = "parseFormatAccount"
  /\ IsUndefined(args[2]) /\ args[1] > 0
  /\ args[3].group = 3
  /\ ret.value = args[3]

(***************************************************************************)
(* Properties of the provider of one permitted chain.                      *)
(***************************************************************************)
\* two optional values are the same value
SameOptional(a, b) == a.t = b.t /\ (IsUndefined(a) \/ a.v = b.v)

\* the list names an account whose group the provider's chain group accepts
HasCompatibleAccount(this, accounts) ==
  \E i \in 1..Len(accounts) :
    \/ IsUndefined(this.chainGroup)
    \/ this.chainGroup.v = Decoded(accounts)[i].group

\* C21: connect() throws and emits no accountChanged event when the approved
\* namespace holds no account compatible with the configured chain group.
C21_ConnectWithoutAccountFails ==
  (IsSingle(provider) /\ op = "approval" /\ ~HasCompatibleAccount(provider, args[1]))
    => (ret.threw /\ AccountEvents(emitted) = <<>>)

\* C22: disconnect() on a provider without a session, or whose session has
\* ended, completes without error and asks the client for no disconnect.
C22_DisconnectIsIdempotent ==
  [][(/\ IsSingle(provider) /\ op' = "disconnect"
      /\ (IsUndefined(provider.session) \/ ~provider.client.live))
       => (~ret'.threw /\ forwarded' = <<>>)]_vars

\* C23: an approval that arrives after the session ended while connect() was
\* awaiting it sets neither session nor account and emits no accountChanged
\* event.
C23_LateApprovalDiscarded ==
  [][(/\ IsSingle(provider) /\ op' = "approval"
      /\ provider.client.proposal = "awaiting, session ended")
       => /\ SameOptional(provider'.session, provider.session)
          /\ SameOptional(provider'.account, provider.account)
          /\ AccountEvents(emitted') = <<>>]_vars

\* C27: a networkChanged event on the provider of several chains sets
\* networkId to the value carried by the event and emits exactly one
\* networkChanged event with that value; the permitted chain groups, the
\* chains, the accounts and the last observed account list stay as they were.
C27_NetworkChangedTouchesOnlyNetworkId ==
  [][(IsMulti(provider) /\ op' = "networkChanged")
       => /\ provider'.networkId = args'[1]
          /\ emitted' = <<[name |-> "networkChanged", data |-> args'[1]]>>
          /\ ~ret'.threw
          /\ provider'.permittedChainGroups = provider.permittedChainGroups
          /\ provider'.chains = provider.chains
          /\ provider'.accounts = provider.accounts
          /\ SameOptional(provider'.lastSetAccounts, provider.lastSetAccounts)
          /\ provider'.methods = provider.methods]_vars

\* a networkChanged event has reached a provider that holds accounts, a
\* delivered account list and chains, and names a network other than the
\* one the provider was constructed for
C27_Witness ==
  /\ IsMulti(provider)
  /\ op = "networkChanged"
  /\ provider.accounts # <<>>
  /\ ~IsUndefined(provider.lastSetAccounts)
  /\ provider.networkId = 1
  /\ 1 \notin DOMAIN provider.permittedChainGroups
  /\ emitted = <<[name |-> "networkChanged", data |-> 1]>>

\* C28: lastSetAccounts changes only in a step that selects an account and
\* emits accountChanged.
C28_LastSetOnlyOnAccept ==
  [][(/\ IsSingle(provider) /\ IsSingle(provider')
      /\ ~SameOptional(provider'.lastSetAccounts, provider.lastSetAccounts))
       => (~ret'.threw /\ Len(AccountEvents(emitted')) = 1
           /\ ~IsUndefined(provider'.account))]_vars

\* C29: a session_update that the provider rejects leaves session and account
\* as they were and passes no session_update event on.
C29_RejectedUpdateKeepsState ==
  [][(IsSingle(provider) /\ op' = "session_update" /\ ret'.threw)
       => /\ SameOptional(provider'.session, provider.session)
          /\ SameOptional(provider'.account, provider.account)
          /\ \A i \in 1..Len(emitted') : emitted'[i].name # "session_update"]_vars

\* C30: accountChanged is emitted only when the address of the selected
\* account differs from the address of the account selected before.
C30_EventOnlyOnNewAddress ==
  [][(IsSingle(provider) /\ IsSingle(provider') /\ AccountEvents(emitted') # <<>>)
       => (\/ IsUndefined(provider.account)
           \/ provider'.account.v.address # provider.account.v.address)]_vars

(***************************************************************************)
(* Properties of the wallet clients.                                       *)
(***************************************************************************)
\* the last handler was the session_request listener of a wallet, called
\* with a request on the topic of the wallet's session
RequestOnActiveTopic ==
  /\ wallet # <<>>
  /\ op = "session_request"
  /\ ~IsUndefined(wallet.topic)
  /\ args[1].topic = wallet.topic.v

\* the request names a chain the wallet serves, by a chain id that encodes
\* a group or the any-group value -1, and a method the wallet signs
PermittedRequest(this, requestEvent) ==
  /\ ~IsUndefined(requestEvent.chainId)
  /\ IF IsWalletOfOneChain(this)
     THEN LET segs == Split(ReplaceSlashes(requestEvent.chainId.v), ":")
          IN  /\ ~LessThan(ParseIntAt(segs, 3), Num(-1))
              /\ StrictEquals(ParseIntAt(segs, 2), this.networkId)
              /\ \/ IsUndefined(this.permittedChainGroup)
                 \/ StrictEquals(ParseIntAt(segs, 3), this.permittedChainGroup)
              /\ includes(WalletClient_methods, requestEvent.method)
     ELSE /\ requestEvent.chainId.v
               = index_formatChain(this.networkId, AccountOf(this.signer).group)
          /\ includes(index_WalletClient_methods, requestEvent.method)

\* C24: for every session_request on the active topic of a wallet, whatever
\* its chain id, method and params, the handler sends exactly one response,
\* a result or an error with the id of the request, and throws nothing.
C24_ExactlyOneResponse ==
  RequestOnActiveTopic
    => /\ ~ret.threw
       /\ Len(forwarded) = 1
       /\ forwarded[1].method = "respond"
       /\ forwarded[1].payload.id = args[1].id
       /\ forwarded[1].payload.type \in {"result", "error"}

\* C25: when the signer returns undefined, the handler never answers with a
\* result; for a permitted request it answers with exactly one error
\* response whose message is 'Result was undefined'.
C25_UndefinedResultIsAnError ==
  (RequestOnActiveTopic /\ ~args[2].threw /\ IsUndefined(args[2].value))
    => /\ \A i \in 1..Len(forwarded) : forwarded[i].payload.type # "result"
       /\ PermittedRequest(wallet, args[1])
            => forwarded = <<Respond(wallet.topic.v,
                                     formatJsonRpcError(args[1].id,
                                                        Message("Result was undefined")))>>

\* a wallet of one chain answered a permitted request, for which the signer
\* returned undefined, with the error 'Result was undefined'
C25_Witness ==
  /\ RequestOnActiveTopic
  /\ IsWalletOfOneChain(wallet)
  /\ PermittedRequest(wallet, args[1])
  /\ ~args[2].threw /\ IsUndefined(args[2].value)
  /\ Len(forwarded) = 1
  /\ forwarded[1].payload.type = "error"
  /\ forwarded[1].payload.value.text = "Result was undefined"

\* the chain (networkId, group) is in the table of permitted groups
Resolves(networkId, group, permittedChainGroups) ==
  /\ ~IsUndefined(permittedChainGroups)
  /\ networkId \in DOMAIN permittedChainGroups.v
  /\ \/ includes(permittedChainGroups.v[networkId], -1)
     \/ includes(permittedChainGroups.v[networkId], group)

\* the network id a change of account or of network would leave the wallet on
ChangedNetworkId(this, name, arguments) ==
  IF name = "changeChain" THEN arguments[1] ELSE this.networkId

\* the group of the signer it would leave the wallet with
ChangedGroup(this, name, arguments) ==
  IF name = "changeAccount" THEN AccountOf(arguments[1]).group
  ELSE AccountOf(this.signer).group

\* C26: a changeAccount or changeChain of the wallet whose resulting
\* (networkId, group) is not in the permitted-groups table throws an error
\* that names that chain, leaves the signer and the network id of the wallet
\* as they were, and sends neither a session update nor an event.
C26_RejectedChangeKeepsWallet ==
  [][(/\ IsWalletOfChains(wallet)
      /\ op' \in {"changeAccount", "changeChain"}
      /\ ~Resolves(ChangedNetworkId(wallet, op', args'),
                   ChangedGroup(wallet, op', args'),
                   wallet.permittedChainGroups))
       => /\ ret'.threw
          /\ ret'.value.chain
               = index_formatChain(ChangedNetworkId(wallet, op', args'),
                                   ChangedGroup(wallet, op', args'))
          /\ wallet'.signer = wallet.signer
          /\ wallet'.networkId = wallet.networkId
          /\ forwarded' = <<>>]_vars

\* a wallet with a negotiated session refused the change to an account of
\* another group than its signer's, on a chain outside the table
C26_Witness ==
  /\ wallet # <<>>
  /\ IsWalletOfChains(wallet)
  /\ op = "changeAccount"
  /\ ~IsUndefined(wallet.topic)
  /\ ~IsUndefined(wallet.permittedChainGroups)
  /\ args[1] # wallet.signer
  /\ ret.threw
  /\ forwarded = <<>>

(***************************************************************************)
(* Invariants of the providers.                                            *)
(***************************************************************************)
\* the { networkId, chainGroup } entries setChain parses from a chain list
ParsedChains(chains) ==
  [i \in 1..Len(chains) |->
     [networkId |-> index_parseChain(chains[i])[1].v,
      chainGroup |-> index_parseChain(chains[i])[2].v]]

\* C31: permittedChainGroups of the provider of several chains is
\* getPermittedChainGroups of the constructor's permittedChains after
\* construction; a step either leaves the table and the chain list as they
\* are, or stores a chain list together with getPermittedChainGroups of its
\* parsed entries; account updates, network changes and requests leave both.
C31_TableIsDerivedFromChains ==
  [][IsMulti(provider)
       => /\ op = "constructor"
               => /\ provider.chains = <<>>
                  /\ provider.permittedChainGroups = getPermittedChainGroups(args[1])
          /\ \/ /\ provider'.permittedChainGroups = provider.permittedChainGroups
                /\ provider'.chains = provider.chains
             \/ /\ op' \in {"connect", "updateNamespace"}
                /\ provider'.chains # provider.chains
                /\ provider'.permittedChainGroups
                     = getPermittedChainGroups(ParsedChains(provider'.chains))
          /\ op' \in {"accountsChanged", "networkChanged", "otherEvent", "request"}
               => /\ provider'.permittedChainGroups = provider.permittedChainGroups
                  /\ provider'.chains = provider.chains]_vars

\* a session has replaced the table of the constructor by the table of its
\* chains, which has no entry for the network of the provider
C31_Witness ==
  /\ IsMulti(provider)
  /\ op = "updateNamespace"
  /\ provider.chains # <<>>
  /\ provider.permittedChainGroups = getPermittedChainGroups(ParsedChains(provider.chains))
  /\ provider.networkId \notin DOMAIN provider.permittedChainGroups

\* the session of the provider has ended: session_delete was received, or
\* disconnect() has completed, and no later approval has opened another one
Disconnected(this) == ~IsUndefined(this.session) /\ ~this.client.live

\* C32: once the provider of one chain has received session_delete or has
\* completed disconnect(), a later session_update changes neither its
\* session nor its account, and a later request() passes nothing to the
\* transport.
C32_DisconnectedIsTerminal ==
  [][(/\ IsSingle(provider)
      /\ Disconnected(provider)
      /\ op' \in {"session_update", "request"})
       => /\ SameOptional(provider'.session, provider.session)
          /\ SameOptional(provider'.account, provider.account)
          /\ forwarded' = <<>>]_vars

\* the last call was request() with an alph_request method of the method list
ApiRequest ==
  /\ IsSingle(provider)
  /\ op = "request"
  /\ args[1] \in {"alph_requestNodeApi", "alph_requestExplorerApi"}
  /\ includes(provider.methods, args[1])

\* C33: a request for alph_requestNodeApi or alph_requestExplorerApi that is
\* in the method list of the provider is passed to the transport, with the
\* permitted chain and the params as given, whether params.signerAddress is
\* absent or names another address than the selected account, and whether
\* or not an account is selected.
C33_ApiRequestBypassesSignerCheck ==
  ApiRequest
    => /\ ~ret.threw
       /\ Len(forwarded) = 1
       /\ forwarded[1].method = args[1]
       /\ SameOptional(forwarded[1].signerAddress, args[2])
       /\ forwarded[1].chainId = provider.permittedChain

\* an API request that names a signer address was forwarded by a provider
\* that has no selected account
C33_Witness ==
  /\ ApiRequest
  /\ IsUndefined(provider.account)
  /\ ~IsUndefined(args[2])
  /\ Len(forwarded) = 1

\* the ChainInfo values the permitted chains of the first provider hold
PermittedChainsInfo(this) ==
  [i \in 1..Len(this.permittedChainsInfo) |-> this.heap[this.permittedChainsInfo[i]]]

\* C34: a networkChanged notification on the first provider of index.ts
\* leaves the permitted chains given to the constructor, permittedChainsInfo,
\* as they were, in every state in which it arrives.
C34_NetworkChangedKeepsPermittedChains ==
  [][(/\ IsLegacy(provider)
      /\ op' = "event"
      /\ args'[1].name = "networkChanged")
       => PermittedChainsInfo(provider') = PermittedChainsInfo(provider)]_vars

\* C35: in every state of the provider of one chain, the selected account
\* is unset or has a group the chain group of the constructor accepts (no
\* chain group, or the group of the account), and permittedChain is
\* formatChain(networkId, chainGroup).
C35_AccountFitsChainGroup ==
  IsSingle(provider)
    => /\ \/ IsUndefined(provider.account)
          \/ IsUndefined(provider.chainGroup)
          \/ /\ provider.chainGroup.v = provider.account.v.group
             /\ provider.chainGroup.v = groupOfAddress(provider.account.v.address)
       /\ ~formatChain(Num(provider.networkId), provider.chainGroup).threw
       /\ provider.permittedChain
            = formatChain(Num(provider.networkId), provider.chainGroup).value

\* a provider with a chain group holds a selected account and has just
\* rejected the update to an account of another group
C35_Witness ==
  /\ IsSingle(provider)
  /\ ~IsUndefined(provider.chainGroup)
  /\ ~IsUndefined(provider.account)
  /\ op = "session_update"
  /\ ret.threw
  /\ Len(args[1]) = 1
  /\ Decoded(args[1])[1].group # provider.chainGroup.v

\* C36: in every state of the provider of several chains, networkId is a
\* key of permittedChainGroups, and no handler that processes an account
\* list ends with the fault of reading permittedChainGroups[networkId].
C36_NetworkIdIsPermitted ==
  IsMulti(provider)
    => /\ provider.networkId \in DOMAIN provider.permittedChainGroups
       /\ op \in {"connect", "updateNamespace", "accountsChanged"} => ~ret.threw

\* C37: in every state of the provider of one chain, a session is held only
\* together with a selected account.
C37_SessionImpliesAccount ==
  (IsSingle(provider) /\ ~IsUndefined(provider.session))
    => ~IsUndefined(provider.account)

\* the predicate with which setAccounts keeps an account of group g on network n
PermittedByTable(T, n, g) ==
  n \in DOMAIN T /\ (includes(T[n], -1) \/ includes(T[n], g))

\* getPermittedChainId was asked about a concrete group and the table that
\* getPermittedChainGroups built
ChainIdOfBuiltTable ==
  /\ pc = "done" /\ op = "getPermittedChainId"
  /\ ~IsUndefined(args[3])
  /\ args[2] >= 0

\* C38: for a table T built by getPermittedChainGroups, a network id n and a
\* concrete group g, getPermittedChainId(n, g, T) is defined exactly when n is
\* a key of T and T[n] contains -1 or g, and a defined result parses back to
\* the network id n.
C38_ChainIdDefinedIffPermitted ==
  ChainIdOfBuiltTable
    => /\ ~IsUndefined(ret.value) <=> PermittedByTable(args[3].v, args[1], args[2])
       /\ ~IsUndefined(ret.value)
            => index_parseChain(ret.value.v)[1] = Num(args[1])

\* a concrete group was permitted by the any-group value of network 1, beside
\* a network of concrete groups
C38_Witness ==
  /\ ChainIdOfBuiltTable
  /\ args[1] = 1
  /\ Cardinality(DOMAIN args[3].v) = 2
  /\ args[3].v[1] = <<-1>>
  /\ args[2] = MaxInfoChainGroup
  /\ ~IsUndefined(ret.value)
  /\ index_parseChain(ret.value.v)[1] = Num(1)

\* the set of the elements of an array
Elements(array) == {array[i] : i \in 1..Len(array)}

\* the orders of the indices 1..n
Orders(n) == {p \in [1..n -> 1..n] : \A i, j \in 1..n : p[i] = p[j] => i = j}

\* the array in the order p
Reordered(array, p) == [i \in 1..Len(array) |-> array[p[i]]]

\* C39: for two lists that are permutations of each other,
\* getPermittedChainGroups returns tables with the same network ids and, for
\* each network, the same set of groups in a list of the same length.
C39_TableOfPermutation ==
  (pc = "done" /\ op = "getPermittedChainGroups")
    => \A p \in Orders(Len(args[1])) :
         LET other == getPermittedChainGroups(Reordered(args[1], p))
         IN  /\ DOMAIN other = DOMAIN ret.value
             /\ \A n \in DOMAIN other :
                  /\ Elements(other[n]) = Elements(ret.value[n])
                  /\ Len(other[n]) = Len(ret.value[n])

\* a list whose reversal gives network 0 the same two groups in the other
\* order, and in which the any-group value of network 1 follows a concrete group
C39_Witness ==
  /\ pc = "done" /\ op = "getPermittedChainGroups"
  /\ Len(args[1]) = MaxInfos
  /\ ret.value = (0 :> <<0, 1>>) @@ (1 :> <<-1>>)
  /\ args[1][3] = [networkId |-> 1, chainGroup |-> 2]
  /\ args[1][4] = [networkId |-> 1, chainGroup |-> -1]
  /\ LET reversed == Reordered(args[1], [i \in 1..MaxInfos |-> MaxInfos + 1 - i])
     IN  getPermittedChainGroups(reversed) = (0 :> <<1, 0>>) @@ (1 :> <<-1>>)

====
